---- MODULE Spec2Model ----
(***************************************************************************)
(* Verification model of the stakd-store production backend.               *)
(*                                                                         *)
(* Part 1 (specification Spec): the production-job registry of             *)
(* backend/main.py (generate_production_files, _run_production_sync,       *)
(* get_production_status) together with the order pipeline of              *)
(* production/process_single_order.py run by the worker thread.            *)
(***************************************************************************)
EXTENDS Integers, Sequences, FiniteSets, TLC

\* ---------------------------------------------------------------- bounds
NumOrders == 1
MaxRuns == 2
MaxCards == 2
MaxPipelineCards == 2

\* ------------------------------------------------------ program constants
cards_per_page == 2

Orders == 1..NumOrders
\* A worker thread: the k-th thread started for order o.
Threads == Orders \X (1..MaxRuns)
CardIdx == 0..(MaxCards - 1)

\* ------------------------------------------------------------ file names
\* Files written by render.run_three_layer_for_dir when it returns.
RenderWrites ==
    { "print_layer_1_bg.png", "print_layer_2_hero.png", "print_layer_3_frame.png",
      "print_foreground.png", "print_hero_frame.png", "print_layer_3_frame_text.png" }

\* Files written by cut_paths.run_for_dir when it returns.
CutWrites ==
    { "hero_cut.svg", "hero_spacer.svg", "frame_cut.svg", "frame_spacer.svg",
      "hero_frame_cut.svg", "hero_frame_spacer.svg" }

CardFileNames == RenderWrites \cup CutWrites

CeilDiv(a, b) == (a + b - 1) \div b

MaxTopPages == CeilDiv(MaxCards, cards_per_page)
MaxSpacerPages == CeilDiv(2 * MaxCards, cards_per_page)

\* A file of an order's output directory: <<"sheet", page, kind>> is a sheet
\* file directly in output/{order_id} (page 0: no page suffix), and
\* <<"card", i, name>> is output/{order_id}/card_{i}/{name}.
SheetFiles ==
    { <<"sheet", 0, "bg_6up.pdf">>, <<"sheet", 0, "fg_4up.pdf">> }
      \cup { <<"sheet", p, "top.svg">> : p \in 0..MaxTopPages }
      \cup { <<"sheet", p, "spacer.svg">> : p \in 0..MaxSpacerPages }

CardFiles == { <<"card", i, f>> : i \in CardIdx, f \in CardFileNames }

AllFiles == SheetFiles \cup CardFiles

\* The files written by one call of run_three_layer_for_dir, and by one call
\* of run_for_dir, are written and removed together: the state of the output
\* directory is kept per sheet file and per such group of card files.
CardGroups == { <<"card", i, g>> : i \in CardIdx, g \in {"render", "cut"} }

Entries == SheetFiles \cup CardGroups

Entry(f) ==
    IF f[1] = "card"
    THEN <<"card", f[2], IF f[3] \in RenderWrites THEN "render" ELSE "cut">>
    ELSE f

\* ---------------------------------------------------------------- errors
NoCardsOrderExists == "No order_cards found for order {id}. This order has no saved cards."
NoCardsUnknown == "No order_cards found for order_id={id}. Either the order does not exist or it has no cards."
NoBackgroundLayers == "No background layers produced"
NoPlayerOrFrameLayers == "No player or frame layers produced"
NoLayersFor4up == "No player or frame layers produced for 4-up PDF"

ErrQuery == "order_cards query failed"
ErrMkdir == "mkdir failed"
ErrFetch == "fetch_assets_from_design failed"
ErrRender == "run_three_layer_for_dir failed"
ErrCut == "run_for_dir failed"
ErrBuild == "sheet builder failed"
ErrUpdate == "status update failed"

VARIABLES
    PRODUCTION_JOBS,         \* order -> [status, error]; status "none": no entry
    PRODUCTION_OUTPUT_DIRS,  \* set of orders that have an entry
    dirExists,               \* order -> output/{order_id} is a directory
    files,                   \* order -> [Entries -> "absent" | "old" | "new"]
    worker,                  \* live thread -> state of its _run_production_sync call
    started                  \* order -> number of worker threads started for it

\* Variables of the card pipeline (part 2).
VARIABLES
    pmode,     \* "idle", "order" (process_single_order) or "batch" (run_batch)
    pn,        \* number of cards of the order / of ordered cards
    pidx,      \* index of the card being processed
    ppc,       \* "idle", "fetch", "render", "cut", "sheets", "finished", "aborted"
    design,    \* design record of the card being processed
    cdir,      \* DirFiles -> content of the current card's directory
    layers,    \* layers written by the render step for the current card
    result,    \* card index -> "pending", "processed", or the error of its step
    perr,      \* the exception that ended the pipeline, or "None"
    sheets,    \* number of sheets (batch) / sheet sets (order) built
    updated    \* batch: cards whose status was set after processing

cvars == << pmode, pn, pidx, ppc, design, cdir, layers, result, perr, sheets, updated >>

svars == << PRODUCTION_JOBS, PRODUCTION_OUTPUT_DIRS, dirExists, files, worker, started >>

\* Variables of the alpha classification (cut_paths.py and render.py).
VARIABLES
    alpha,     \* alpha value of one pixel of a layer image, 0..255
    binary,    \* value _get_alpha_binary gives the pixel ({0} or {255}), NotComputed before
    hardened   \* alpha the frame hardening gives the pixel ({0} or {255}), NotComputed before

avars == << alpha, binary, hardened >>

\* Variables of the cut-path step of one card directory (cut_paths.py).
VARIABLES
    traced,    \* image "hero", "frame", merged "hero_frame" -> what the tracer finds
    svgs,      \* vector file -> [exists, paths] in the card directory
    cutpc      \* position of run_for_dir: "idle", "start", "hero", "frame",
               \* "union", "union_spacer", "returned", "raised"

gvars == << traced, svgs, cutpc >>

\* Variables of the sheet layout of an order or of a batch (pdf_builder.py).
VARIABLES
    lrun,      \* [mode, n, stage, p]: the run, its cards, its position
    lsheets,   \* [fg, top, spacer, ganged]: the pages built so far
    lstatus    \* batch: [skip, attempts, updated]: SKIP_STATUS_UPDATE, the number
               \* of status updates attempted per card, the cards updated

lvars == << lrun, lsheets, lstatus >>

\* Variables of one call of a sheet builder of pdf_builder.py.
VARIABLES
    bin,       \* [builder, a, b]: the builder called and its lists of paths,
               \* each path given by the state of its file
    bout       \* NotBuilt, or what the call did: [raised, written, slots]

bvars == << bin, bout >>

\* Variables of one call of _build_polygons_from_contours (cut_paths.py).
VARIABLES
    hin,       \* [contours, H]: the contours and their hierarchy rows
               \* << next, prev, first_child, parent >>
    hpc,       \* [pc, i, child, holes, steps]: position of the two loops
    hpolys     \* the list polygons

hvars == << hin, hpc, hpolys >>

nvars == << bvars, hvars >>

fvars == << avars, gvars, lvars, nvars >>

vars == << svars, cvars, fvars >>

NotComputed == {}

InitAlphaIdle ==
    /\ alpha = 0
    /\ binary = NotComputed
    /\ hardened = NotComputed

CutLayers == {"hero", "frame", "hero_frame"}

SvgNames == {"hero_cut.svg", "hero_spacer.svg", "frame_cut.svg", "frame_spacer.svg",
             "hero_frame_cut.svg", "hero_frame_spacer.svg"}

NoFile == [exists |-> FALSE, paths |-> {}]

NoTrace == [state |-> "missing", contours |-> FALSE, polygons |-> {}]

InitCutIdle ==
    /\ traced = [l \in CutLayers |-> NoTrace]
    /\ svgs = [f \in SvgNames |-> NoFile]
    /\ cutpc = "idle"

NoSheets == [fg |-> << >>, top |-> << >>, spacer |-> << >>, ganged |-> << >>]

NoStatus == [skip |-> FALSE, attempts |-> << >>, updated |-> {}]

InitLayoutIdle ==
    /\ lrun = [mode |-> "idle", n |-> 0, stage |-> "idle", p |-> 0]
    /\ lsheets = NoSheets
    /\ lstatus = NoStatus

NotBuilt == [raised |-> FALSE, written |-> FALSE, slots |-> {}]

InitBuilderIdle ==
    /\ bin = [builder |-> "idle", a |-> << >>, b |-> << >>]
    /\ bout = NotBuilt

HIdle == [pc |-> "idle", i |-> 0, child |-> -1, holes |-> << >>, steps |-> 0]

InitContoursIdle ==
    /\ hin = [contours |-> << >>, H |-> << >>]
    /\ hpc = HIdle
    /\ hpolys = << >>

InitNewIdle == InitBuilderIdle /\ InitContoursIdle

InitFunctions == InitAlphaIdle /\ InitCutIdle /\ InitLayoutIdle /\ InitNewIdle

NoJob == [status |-> "none", error |-> "None"]

IdleWorker ==
    [ pc |-> "unstarted", order |-> 0, n |-> 0, i |-> 0, p |-> 0,
      cleaned |-> FALSE, inDb |-> FALSE, lookupOk |-> FALSE,
      exc |-> "None",
      failedCard |-> -1 ]

InitServer ==
    /\ PRODUCTION_JOBS = [o \in Orders |-> NoJob]
    /\ PRODUCTION_OUTPUT_DIRS = {}
    /\ dirExists = [o \in Orders |-> FALSE]
    /\ files = [o \in Orders |-> [e \in Entries |-> "absent"]]
    /\ worker = [t \in {} |-> IdleWorker]
    /\ started = [o \in Orders |-> 0]

\* ------------------------------------------------------------ filesystem
Tag(o, f) == files[o][Entry(f)]

Exists(o, f) == Tag(o, f) # "absent"

ExistingFiles(o) == { f \in AllFiles : Exists(o, f) }

\* Result of writing the files in ws during the current run.
Written(fs, ws) ==
    [e \in Entries |-> IF \E f \in ws : Entry(f) = e THEN "new" ELSE fs[e]]

\* shutil.rmtree(out_dir): on success the directory and all its files are
\* gone.  When it raises, the directory is still there together with the
\* entries it had not removed yet: all of them, only the sheet files, only the
\* card directories, or none (only the final rmdir failed).
RmtreeOutcomes(o) ==
    { [ok |-> TRUE, dir |-> FALSE, keep |-> {}] }
      \cup { [ok |-> FALSE, dir |-> TRUE, keep |-> k] :
                k \in { ExistingFiles(o), ExistingFiles(o) \cap SheetFiles,
                        ExistingFiles(o) \cap CardFiles, {} } }

NoRmtree(o) == [ok |-> TRUE, dir |-> dirExists[o], keep |-> ExistingFiles(o)]

\* threading.Thread(...).start(): the thread t begins with the record w.
Start(t, w) == [u \in (DOMAIN worker) \cup {t} |-> IF u = t THEN w ELSE worker[u]]

\* Number of worker threads started so far.
TotalStarted == Cardinality({ t \in Threads : t[2] <= started[t[1]] })

\* ----------------------------------------------- generate_production_files
AlreadyRunning_NoCheck(o) == FALSE

AlreadyRunning(o) == PRODUCTION_JOBS[o].status = "running"

generate_production_files(o, clean) ==
    IF AlreadyRunning(o)
    THEN \* 200 "Generation already in progress."
         UNCHANGED svars
    ELSE /\ TotalStarted < MaxRuns
         /\ \E r \in (IF clean /\ dirExists[o] THEN RmtreeOutcomes(o) ELSE {NoRmtree(o)}) :
               /\ dirExists' = [dirExists EXCEPT ![o] = r.dir]
               /\ files' = [files EXCEPT ![o] =
                              [e \in Entries |-> IF \E f \in r.keep : Entry(f) = e
                                                THEN "old" ELSE "absent"]]
         /\ PRODUCTION_OUTPUT_DIRS' =
               IF clean THEN PRODUCTION_OUTPUT_DIRS \ {o} ELSE PRODUCTION_OUTPUT_DIRS
         /\ PRODUCTION_JOBS' =
               [PRODUCTION_JOBS EXCEPT ![o] = [status |-> "running", error |-> "None"]]
         /\ started' = [started EXCEPT ![o] = @ + 1]
         /\ worker' = Start(<<o, started[o] + 1>>,
                            [IdleWorker EXCEPT !.pc = "start", !.order = o,
                                               !.cleaned = (clean /\ dirExists[o])])

\* ------------------------------------------------- process_single_order
\* Result of one order_cards query: the number of rows, or QueryRaised.
QueryRaised == -1

QueryResults(inDb) ==
    IF inDb THEN {QueryRaised} \cup (0..MaxCards) ELSE {QueryRaised, 0}

ItemResults(inDb) ==
    IF inDb THEN {"raise", "empty", "some"} ELSE {"raise", "empty"}

\* Number of cards returned, or QueryRaised when the final query raises.
get_order_cards(items, byItem, byOrder) ==
    IF items = "some" /\ byItem # QueryRaised THEN byItem ELSE byOrder

_order_exists_RaiseIsTrue(inDb, lookup) ==
    IF lookup = "raise" THEN TRUE ELSE inDb

_order_exists(inDb, lookup) ==
    IF lookup = "raise" THEN FALSE ELSE inDb

NoCardsError(inDb, lookup) ==
    IF _order_exists(inDb, lookup) THEN NoCardsOrderExists ELSE NoCardsUnknown

\* The thread t has terminated.
Ended(t) == [u \in (DOMAIN worker) \ {t} |-> worker[u]]

Raise(t, e) == [worker EXCEPT ![t].pc = "except", ![t].exc = e]

\* Lines 82-99: client, cards, the no-cards errors, out_dir.mkdir.
ProcessBegin(t) ==
    LET w == worker[t]
        o == w.order
    IN  /\ w.pc = "start"
        /\ UNCHANGED << PRODUCTION_JOBS, PRODUCTION_OUTPUT_DIRS, files, started >>
        /\ \/ \* get_supabase_client raises SystemExit: the thread ends silently
              /\ worker' = Ended(t)
              /\ UNCHANGED dirExists
           \/ \E inDb \in BOOLEAN :
              \E cards \in { get_order_cards(items, byItem, byOrder) :
                                items \in ItemResults(inDb), byItem \in QueryResults(inDb),
                                byOrder \in QueryResults(inDb) } :
                IF cards = QueryRaised
                THEN /\ worker' = Raise(t, ErrQuery)
                     /\ UNCHANGED dirExists
                ELSE IF cards = 0
                THEN /\ \E lookup \in {"ok", "raise"} :
                          worker' = [Raise(t, NoCardsError(inDb, lookup)) EXCEPT
                                        ![t].inDb = inDb, ![t].lookupOk = (lookup = "ok")]
                     /\ UNCHANGED dirExists
                ELSE \/ /\ worker' = [worker EXCEPT ![t].pc = "cards", ![t].n = cards,
                                                    ![t].i = 0]
                        /\ dirExists' = [dirExists EXCEPT ![o] = TRUE]
                     \/ /\ worker' = Raise(t, ErrMkdir)
                        /\ UNCHANGED dirExists

CardWrites(i, names) == { <<"card", i, f>> : f \in names }

\* Lines 102-120 with the failing card skipped instead of the error raised.
ProcessCard_SkipFailed(t) ==
    LET w == worker[t]
        o == w.order
        i == w.i
    IN  /\ w.pc = "cards"
        /\ i < w.n
        /\ UNCHANGED << PRODUCTION_JOBS, PRODUCTION_OUTPUT_DIRS, dirExists, started >>
        /\ \/ /\ UNCHANGED files
              /\ worker' = [worker EXCEPT ![t].failedCard = i, ![t].exc = ErrRender,
                                          ![t].i = i + 1,
                                          ![t].pc = IF i + 1 = w.n THEN "bg" ELSE "cards"]
           \/ /\ files' = [files EXCEPT ![o] = Written(@, CardWrites(i, RenderWrites \cup CutWrites))]
              /\ worker' = [worker EXCEPT ![t].i = i + 1,
                                          ![t].pc = IF i + 1 = w.n THEN "bg" ELSE "cards"]

\* Lines 102-120: one iteration of the card loop.  Each of the three steps
\* either returns, having written all its files, or raises.  (What a step
\* wrote before raising is not tracked: nothing reads a card's files before
\* the next run has rewritten them.)
ProcessCard(t) ==
    LET w == worker[t]
        o == w.order
        i == w.i
    IN  /\ w.pc = "cards"
        /\ i < w.n
        /\ UNCHANGED << PRODUCTION_JOBS, PRODUCTION_OUTPUT_DIRS, dirExists, started >>
        /\ \/ \* fetch_assets_from_design raises
              /\ worker' = [Raise(t, ErrFetch) EXCEPT ![t].failedCard = i]
              /\ UNCHANGED files
           \/ \* run_three_layer_for_dir raises
              /\ worker' = [Raise(t, ErrRender) EXCEPT ![t].failedCard = i]
              /\ UNCHANGED files
           \/ \* run_for_dir raises
              /\ worker' = [Raise(t, ErrCut) EXCEPT ![t].failedCard = i]
              /\ files' = [files EXCEPT ![o] = Written(@, CardWrites(i, RenderWrites))]
           \/ \* all three steps return; card_dirs.append(card_dir)
              /\ files' = [files EXCEPT ![o] = Written(@, CardWrites(i, RenderWrites \cup CutWrites))]
              /\ worker' = [worker EXCEPT ![t].i = i + 1,
                                          ![t].pc = IF i + 1 = w.n THEN "bg" ELSE "cards"]

\* Lines 122-130: the per-card files that exist, as lists of card indexes.
CardsWith(o, n, name) == { i \in 0..(n - 1) : Exists(o, <<"card", i, name>>) }

fg_images(o, n) ==
    { <<i, "player">> : i \in CardsWith(o, n, "print_layer_2_hero.png") }
      \cup { <<i, "frame">> : i \in CardsWith(o, n, "print_layer_3_frame_text.png")
                                      \cup CardsWith(o, n, "print_layer_3_frame.png") }

num_top_pages(n) == CeilDiv(n, cards_per_page)

\* zip(hero_frame_spacers, frame_spacers), each entry twice.
hf_s_all_len(o, n) ==
    LET a == Cardinality(CardsWith(o, n, "hero_frame_spacer.svg"))
        b == Cardinality(CardsWith(o, n, "frame_spacer.svg"))
    IN  2 * (IF a < b THEN a ELSE b)

num_spacer_pages(o, n) == CeilDiv(hf_s_all_len(o, n), cards_per_page)

PageFile(kind, p, pages) == <<"sheet", IF pages > 1 THEN p + 1 ELSE 0, kind>>

\* A sheet builder either writes its file or raises.
BuildSheet(t, f, nextPc, nextP) ==
    LET o == worker[t].order
    IN  \/ /\ files' = [files EXCEPT ![o] = Written(@, {f})]
           /\ worker' = [worker EXCEPT ![t].pc = nextPc, ![t].p = nextP]
        \/ /\ worker' = Raise(t, ErrBuild)
           /\ UNCHANGED files

\* Lines 132-142.
BuildBackground(t) ==
    LET w == worker[t]
        o == w.order
    IN  /\ w.pc = "bg"
        /\ UNCHANGED << PRODUCTION_JOBS, PRODUCTION_OUTPUT_DIRS, dirExists, started >>
        /\ IF CardsWith(o, w.n, "print_layer_1_bg.png") = {}
           THEN worker' = Raise(t, NoBackgroundLayers) /\ UNCHANGED files
           ELSE IF \/ CardsWith(o, w.n, "print_layer_2_hero.png") = {}
                   \/ CardsWith(o, w.n, "print_layer_3_frame.png") = {}
           THEN worker' = Raise(t, NoPlayerOrFrameLayers) /\ UNCHANGED files
           ELSE BuildSheet(t, <<"sheet", 0, "bg_6up.pdf">>, "fg", 0)

\* Lines 144-159.
BuildForeground(t) ==
    LET w == worker[t]
        o == w.order
    IN  /\ w.pc = "fg"
        /\ UNCHANGED << PRODUCTION_JOBS, PRODUCTION_OUTPUT_DIRS, dirExists, started >>
        /\ IF fg_images(o, w.n) = {}
           THEN worker' = Raise(t, NoLayersFor4up) /\ UNCHANGED files
           ELSE BuildSheet(t, <<"sheet", 0, "fg_4up.pdf">>, "top", 0)

\* Lines 163-172: one top-layer page.
BuildTop(t) ==
    LET w == worker[t]
        pages == num_top_pages(w.n)
    IN  /\ w.pc = "top"
        /\ w.p < pages
        /\ UNCHANGED << PRODUCTION_JOBS, PRODUCTION_OUTPUT_DIRS, dirExists, started >>
        /\ BuildSheet(t, PageFile("top.svg", w.p, pages),
                      IF w.p + 1 = pages THEN "spacer" ELSE "top",
                      IF w.p + 1 = pages THEN 0 ELSE w.p + 1)

\* Lines 174-189: one spacer page.
BuildSpacer(t) ==
    LET w == worker[t]
        pages == num_spacer_pages(w.order, w.n)
    IN  /\ w.pc = "spacer"
        /\ w.p < pages
        /\ UNCHANGED << PRODUCTION_JOBS, PRODUCTION_OUTPUT_DIRS, dirExists, started >>
        /\ BuildSheet(t, PageFile("spacer.svg", w.p, pages), "spacer", w.p + 1)

\* --------------------------------------------------- _run_production_sync
\* process_single_order returns; PRODUCTION_OUTPUT_DIRS[order_id] = out_dir.
WorkerReturn(t) ==
    LET w == worker[t]
    IN  /\ w.pc = "spacer"
        /\ w.p = num_spacer_pages(w.order, w.n)
        /\ PRODUCTION_OUTPUT_DIRS' = PRODUCTION_OUTPUT_DIRS \cup {w.order}
        /\ worker' = [worker EXCEPT ![t].pc = "done"]
        /\ UNCHANGED << PRODUCTION_JOBS, dirExists, files, started >>

CompletedJob == [status |-> "completed", error |-> "None"]

FailedJob_Completed(e) == [status |-> "completed", error |-> e]

FailedJob(e) == [status |-> "failed", error |-> e]

WorkerCompleted(t) ==
    LET w == worker[t]
    IN  /\ w.pc = "done"
        /\ PRODUCTION_JOBS' = [PRODUCTION_JOBS EXCEPT ![w.order] = CompletedJob]
        /\ worker' = Ended(t)
        /\ UNCHANGED << PRODUCTION_OUTPUT_DIRS, dirExists, files, started >>

\* except Exception as e
WorkerExcept(t) ==
    LET w == worker[t]
    IN  /\ w.pc = "except"
        /\ PRODUCTION_JOBS' = [PRODUCTION_JOBS EXCEPT ![w.order] = FailedJob(w.exc)]
        /\ worker' = Ended(t)
        /\ UNCHANGED << PRODUCTION_OUTPUT_DIRS, dirExists, files, started >>

\* --------------------------------------------------- get_production_status
_list_production_artifacts(o) ==
    IF dirExists[o] THEN { f \in SheetFiles : Exists(o, f) } ELSE {}

get_production_status(o) ==
    IF PRODUCTION_JOBS[o].status = "failed"
    THEN [status |-> "failed", files |-> {}]
    ELSE IF o \in PRODUCTION_OUTPUT_DIRS /\ dirExists[o]
    THEN [status |-> "completed", files |-> _list_production_artifacts(o)]
    ELSE IF PRODUCTION_JOBS[o].status = "running"
    THEN [status |-> "running", files |-> {}]
    ELSE [status |-> "pending", files |-> {}]

list_production_files(o) ==
    IF o \in PRODUCTION_OUTPUT_DIRS /\ dirExists[o]
    THEN _list_production_artifacts(o) ELSE {}

\* ======================================================================
\* Part 2 (specifications SpecCards and SpecCardsCli): the per-card pipeline
\* fetch -> render -> cut, as run for the cards of one order by
\* process_single_order and for the ordered cards by batch_manager.run_batch.
\* ======================================================================
NUM_PER_SHEET == 3

PCards == 0..(MaxPipelineCards - 1)

Snapshots3 == { "background_snapshot.png", "player_snapshot.png", "frame_snapshot.png" }

Snapshots4 == Snapshots3 \cup { "text_snapshot.png" }

RawAssets == { "background.jpg", "hero.png", "frame.png" }

DirFiles == Snapshots4 \cup RawAssets

\* Content of a file of the card directory: "absent"; "saved" (written from a
\* source of the design record by this fetch); "stale" (an image left by an
\* earlier run); "junk" (not a readable image: a truncated download, or the
\* byte-string fallback of _write_placeholder_image); "placeholder"; "derived"
\* (background made from the hero by _background_from_hero).
EmptyDir == [f \in DirFiles |-> "absent"]

StaleRaw == [f \in DirFiles |-> IF f \in RawAssets THEN "stale" ELSE "absent"]

StaleSnapshots == [f \in DirFiles |-> IF f \in Snapshots3 THEN "stale" ELSE "absent"]

\* Card directories a card's processing can start with: output/{id}/card_{i}
\* may hold the files of an earlier run; temp_assets/{card_id} never holds
\* snapshots.
StartDirs(mode) ==
    IF mode = "order" THEN {EmptyDir, StaleRaw, StaleSnapshots} ELSE {EmptyDir, StaleRaw}

IsFile(d, f) == d[f] # "absent"

\* The design record, reduced to what the renderer reads from it.
Designs == [tint : BOOLEAN, text : BOOLEAN, transform : BOOLEAN]

NoDesign == [tint |-> FALSE, text |-> FALSE, transform |-> FALSE]

StartDesigns(mode) == IF mode = "order" THEN Designs ELSE {NoDesign}

ErrMissing == "Missing raw asset"
ErrImage == "cannot identify image file"
ErrNoCard == "No card found"
ErrNoUrls == "design_data has no background_url, hero_url, or overlay_url"
ErrAssets == "OSError while writing assets"

\* download_image / _save_data_url of one source: "none" (no usable reference,
\* or the save failed before the file was opened), "saved", or "partial" (the
\* save failed after the file was opened for writing).
SourceOutcomes == {"none", "saved", "partial"}

Save(tag, outcome) ==
    IF outcome = "saved" THEN "saved" ELSE IF outcome = "partial" THEN "junk" ELSE tag

\* if not path.is_file(): _write_placeholder_image(path); ph is what the
\* placeholder writer leaves, "placeholder" or its byte-string fallback "junk".
Placeholder_NotWritten(tag, ph) == tag

Placeholder(tag, ph) == IF tag = "absent" THEN ph ELSE tag

\* _background_from_hero returns True exactly when hero.png can be opened.
_background_from_hero(hero) == hero \notin {"absent", "junk"}

fetch_assets_from_design(d, s, ph) ==
    LET d1 == [f \in DirFiles |-> IF f \in Snapshots4 THEN Save(d[f], s[f]) ELSE d[f]]
        has_snapshots == \A f \in Snapshots3 : IsFile(d1, f)
        hero0 == Save(d["hero.png"], s["hero.png"])
        hero == Placeholder(hero0, ph)
        frame == Placeholder(Save(d["frame.png"], s["frame.png"]), ph)
        bg0 == Save(d["background.jpg"], s["background.jpg"])
        bg == IF bg0 # "absent" THEN bg0
              ELSE IF _background_from_hero(hero) THEN "derived"
              ELSE Placeholder(bg0, ph)
    IN  IF has_snapshots
        THEN [d1 EXCEPT !["hero.png"] = hero0]
        ELSE [d1 EXCEPT !["hero.png"] = hero, !["frame.png"] = frame,
                        !["background.jpg"] = bg]

\* fetch_assets_for_card: u gives for each raw asset "nourl" or the outcome of
\* its download.
UrlOutcomes == SourceOutcomes \cup {"nourl"}

fetch_assets_for_card(d, found, u) ==
    IF ~found THEN [err |-> ErrNoCard, dir |-> d]
    ELSE IF \A f \in RawAssets : u[f] = "nourl" THEN [err |-> ErrNoUrls, dir |-> d]
    ELSE [err |-> "None",
          dir |-> [f \in DirFiles |-> IF f \in RawAssets THEN Save(d[f], u[f]) ELSE d[f]]]

\* ------------------------------------------------------------- render.py
\* A print layer: the file it was made from and what was done to it.
NoLayer == [src |-> "none", ops |-> {}]

NoLayers == [bg |-> NoLayer, hero |-> NoLayer, frame |-> NoLayer, text |-> FALSE]

process_background_snapshot ==
    [src |-> "background_snapshot.png", ops |-> {"scale", "crop"}]

process_background(dsg) ==
    [src |-> "background.jpg",
     ops |-> {"scale", "crop"} \cup (IF dsg.tint THEN {"tint"} ELSE {})
                                \cup (IF dsg.text THEN {"text"} ELSE {})]

process_hero_snapshot == [src |-> "player_snapshot.png", ops |-> {"scale"}]

process_hero_with_design(dsg) ==
    [src |-> "hero.png",
     ops |-> {"scale"} \cup (IF dsg.transform THEN {"transform"} ELSE {})]

process_frame_snapshot ==
    [src |-> "frame_snapshot.png", ops |-> {"scale", "crop", "harden_alpha"}]

process_frame == [src |-> "frame.png", ops |-> {"scale", "crop", "harden_alpha"}]

\* Lines 437-442: the hero layer when all three snapshots are present.
snapshot_hero_AlwaysSnapshot(d, dsg) == process_hero_snapshot

snapshot_hero(d, dsg) ==
    IF IsFile(d, "hero.png") THEN process_hero_with_design(dsg) ELSE process_hero_snapshot

\* Result of run_three_layer_for_dir on directory d: the error it raises, or
\* the layers it has written.  Image.open raises on a file that is no image.
run_three_layer_for_dir(d, dsg) ==
    LET use_snapshots == \A f \in Snapshots3 : IsFile(d, f)
        text == IsFile(d, "text_snapshot.png")
        made == IF use_snapshots
                THEN [bg |-> process_background_snapshot, hero |-> snapshot_hero(d, dsg),
                      frame |-> process_frame_snapshot, text |-> text]
                ELSE [bg |-> process_background(dsg), hero |-> process_hero_with_design(dsg),
                      frame |-> process_frame, text |-> text]
        opened == {made.bg.src, made.hero.src, made.frame.src}
                     \cup (IF text THEN {"text_snapshot.png"} ELSE {})
    IN  IF ~use_snapshots /\ \E f \in RawAssets : ~IsFile(d, f)
        THEN [err |-> ErrMissing, layers |-> NoLayers]
        ELSE IF \E f \in opened : d[f] = "junk"
        THEN [err |-> ErrImage, layers |-> NoLayers]
        ELSE [err |-> "None", layers |-> made]

\* ------------------------------------------------------ the card pipeline
InitCards ==
    /\ pmode = "idle"
    /\ pn = 0
    /\ pidx = 0
    /\ ppc = "idle"
    /\ design = NoDesign
    /\ cdir = EmptyDir
    /\ layers = NoLayers
    /\ result = [i \in PCards |-> "pending"]
    /\ perr = "None"
    /\ sheets = 0
    /\ updated = {}

Init == InitServer /\ InitCards /\ InitFunctions

\* process_single_order reaches its card loop with n cards.
StartOrder ==
    /\ ppc = "idle"
    /\ \E n \in 1..MaxPipelineCards, dsg \in StartDesigns("order"), d \in StartDirs("order") :
          /\ pmode' = "order"
          /\ pn' = n
          /\ design' = dsg
          /\ cdir' = d
    /\ ppc' = "fetch"
    /\ UNCHANGED << pidx, layers, result, perr, sheets, updated, svars, fvars >>

\* run_batch, lines 86-95.
StartBatch ==
    /\ ppc = "idle"
    /\ pmode' = "batch"
    /\ \E n \in 0..MaxPipelineCards, d \in StartDirs("batch") :
          /\ pn' = n
          /\ cdir' = d
          /\ ppc' = IF n = 0 THEN "finished" ELSE "fetch"
    /\ UNCHANGED << pidx, design, layers, result, perr, sheets, updated, svars, fvars >>

Processed(res) == { i \in PCards : res[i] = "processed" }

\* The exception e leaves the pipeline.
Abort(e) ==
    /\ ppc' = "aborted"
    /\ perr' = e
    /\ result' = [result EXCEPT ![pidx] = e]
    /\ UNCHANGED << pmode, pn, pidx, design, cdir, layers, sheets, updated >>

\* The current card ends with res; go on with the next card, or with the
\* sheets after the last one (run_batch returns if nothing was processed).
NextCardOrSheets(res) ==
    LET result2 == [result EXCEPT ![pidx] = res]
    IN  /\ result' = result2
        /\ IF pidx + 1 < pn
           THEN /\ pidx' = pidx + 1
                /\ ppc' = "fetch"
                /\ layers' = NoLayers
                /\ \E dsg \in StartDesigns(pmode), d \in StartDirs(pmode) :
                      design' = dsg /\ cdir' = d
           ELSE /\ ppc' = IF pmode = "batch" /\ Processed(result2) = {}
                          THEN "finished" ELSE "sheets"
                /\ UNCHANGED << pidx, layers, design, cdir >>
        /\ UNCHANGED << pmode, pn, perr, sheets, updated >>

\* What _run_pipeline_for_card does with an exception e of one of its steps:
\* it logs it and returns None.
_run_pipeline_for_card_NoExcept(e) == [returns |-> "raise", raised |-> e]

_run_pipeline_for_card(e) == [returns |-> "None", raised |-> "None"]

\* A step of the current card raises e.
CardError(e) ==
    IF pmode = "order"
    THEN Abort(e)
    ELSE IF _run_pipeline_for_card(e).raised # "None" THEN Abort(e) ELSE NextCardOrSheets(e)

CardFetch ==
    /\ ppc = "fetch"
    /\ UNCHANGED << svars, fvars >>
    /\ IF pmode = "order"
       THEN \/ \E s \in [DirFiles -> SourceOutcomes], ph \in {"placeholder", "junk"} :
                 /\ cdir' = fetch_assets_from_design(cdir, s, ph)
                 /\ ppc' = "render"
                 /\ UNCHANGED << pmode, pn, pidx, design, layers, result, perr, sheets, updated >>
            \/ CardError(ErrAssets)
       ELSE \E found \in BOOLEAN, u \in [RawAssets -> UrlOutcomes] :
               LET r == fetch_assets_for_card(cdir, found, u)
               IN  IF r.err # "None"
                   THEN CardError(r.err)
                   ELSE /\ cdir' = r.dir
                        /\ ppc' = "render"
                        /\ UNCHANGED << pmode, pn, pidx, design, layers, result, perr,
                                        sheets, updated >>

CardRender ==
    /\ ppc = "render"
    /\ UNCHANGED << svars, fvars >>
    /\ LET r == run_three_layer_for_dir(cdir, design)
       IN  IF r.err # "None"
           THEN CardError(r.err)
           ELSE \/ /\ layers' = r.layers
                   /\ ppc' = "cut"
                   /\ UNCHANGED << pmode, pn, pidx, design, cdir, result, perr, sheets, updated >>
                \/ \* saving a layer fails
                   CardError(ErrImage)

CardCut ==
    /\ ppc = "cut"
    /\ UNCHANGED << svars, fvars >>
    /\ \/ NextCardOrSheets("processed")
       \/ CardError(ErrCut)

\* process_single_order, lines 122-191: the order's sheets.
OrderSheets ==
    /\ ppc = "sheets"
    /\ pmode = "order"
    /\ UNCHANGED << pmode, pn, pidx, design, cdir, layers, result, updated, svars, fvars >>
    /\ \/ sheets' = sheets + 1 /\ ppc' = "finished" /\ UNCHANGED perr
       \/ sheets' = sheets /\ ppc' = "aborted" /\ perr' = ErrBuild

\* The processed cards in chunks of NUM_PER_SHEET, in processing order.
Chunk(res, k) ==
    { i \in Processed(res) :
        LET before == Cardinality({ j \in Processed(res) : j < i })
        IN  before \div NUM_PER_SHEET = k }

\* run_batch, lines 107-137: one chunk; the sheet files are built, then the
\* status of each of the chunk's cards is updated (an update that fails with
\* PostgrestAPIError is logged, any other exception leaves run_batch).
BatchSheets ==
    /\ ppc = "sheets"
    /\ pmode = "batch"
    /\ UNCHANGED << pmode, pn, pidx, design, cdir, layers, result, svars, fvars >>
    /\ \/ /\ sheets' = sheets + 1
          /\ \E done \in SUBSET Chunk(result, sheets) : updated' = updated \cup done
          /\ ppc' = IF (sheets + 1) * NUM_PER_SHEET >= Cardinality(Processed(result))
                    THEN "finished" ELSE "sheets"
          /\ UNCHANGED perr
       \/ /\ sheets' = sheets + 1
          /\ \E done \in SUBSET Chunk(result, sheets) :
                done # Chunk(result, sheets) /\ updated' = updated \cup done
          /\ ppc' = "aborted"
          /\ perr' = ErrUpdate
       \/ /\ ppc' = "aborted"
          /\ perr' = ErrBuild
          /\ UNCHANGED << sheets, updated >>

\* generate_cut_files.main, lines 30-35, run with --clean for the same order
\* while the order is being processed: rmtree removes the order's directory
\* with the card directories; its own process_single_order call ends with an
\* error of the client or of the query before it writes anything.
CliClean ==
    /\ pmode = "order"
    /\ ppc \in {"fetch", "render", "cut"}
    /\ cdir # EmptyDir
    /\ cdir' = EmptyDir
    /\ UNCHANGED << pmode, pn, pidx, ppc, design, layers, result, perr, sheets, updated, svars, fvars >>

NextCards ==
    \/ StartOrder
    \/ StartBatch
    \/ CardFetch
    \/ CardRender
    \/ CardCut
    \/ OrderSheets
    \/ BatchSheets

SpecCards == Init /\ [][NextCards]_vars

NextCardsCli ==
    \/ StartOrder
    \/ StartBatch
    \/ CardFetch
    \/ CardRender
    \/ CardCut
    \/ OrderSheets
    \/ BatchSheets
    \/ CliClean

SpecCardsCli == Init /\ [][NextCardsCli]_vars

\* ------------------------------------------------------------------ Spec
Generate == (\E o \in Orders, clean \in BOOLEAN : generate_production_files(o, clean)) /\ UNCHANGED << cvars, fvars >>

Begin == (\E t \in DOMAIN worker : ProcessBegin(t)) /\ UNCHANGED << cvars, fvars >>

Card == (\E t \in DOMAIN worker : ProcessCard(t)) /\ UNCHANGED << cvars, fvars >>

Background == (\E t \in DOMAIN worker : BuildBackground(t)) /\ UNCHANGED << cvars, fvars >>

Foreground == (\E t \in DOMAIN worker : BuildForeground(t)) /\ UNCHANGED << cvars, fvars >>

Top == (\E t \in DOMAIN worker : BuildTop(t)) /\ UNCHANGED << cvars, fvars >>

Spacer == (\E t \in DOMAIN worker : BuildSpacer(t)) /\ UNCHANGED << cvars, fvars >>

Return == (\E t \in DOMAIN worker : WorkerReturn(t)) /\ UNCHANGED << cvars, fvars >>

Completed == (\E t \in DOMAIN worker : WorkerCompleted(t)) /\ UNCHANGED << cvars, fvars >>

Except == (\E t \in DOMAIN worker : WorkerExcept(t)) /\ UNCHANGED << cvars, fvars >>

Next ==
    \/ Generate
    \/ Begin
    \/ Card
    \/ Background
    \/ Foreground
    \/ Top
    \/ Spacer
    \/ Return
    \/ Completed
    \/ Except

Spec == Init /\ [][Next]_vars

\* ----------------------------------------------------------------- claims
\* Worker threads of order o that have been started and have not terminated.
InFlight(o) ==
    { t \in DOMAIN worker : worker[t].order = o }

Running(o) == PRODUCTION_JOBS[o].status = "running"

NewFiles(o) == { f \in AllFiles : Tag(o, f) = "new" }

OldFiles(o) == { f \in AllFiles : Tag(o, f) = "old" }

\* C1: for every order at most one production run is in flight at any time,
\* and a generate request that arrives while the order's registry status is
\* running starts no worker and leaves the registry unchanged.
C1_OneRunPerOrder ==
    /\ [](\A o \in Orders : Cardinality(InFlight(o)) <= 1)
    /\ [][\A o \in Orders, clean \in BOOLEAN :
            (Running(o) /\ generate_production_files(o, clean))
               => UNCHANGED << PRODUCTION_JOBS, PRODUCTION_OUTPUT_DIRS, worker, started >>]_vars

\* A second request can be made while a run of the same order is in flight
\* and has already written files.
C1_Witness ==
    \E o \in Orders :
        /\ Running(o)
        /\ Cardinality(InFlight(o)) = 1
        /\ NewFiles(o) # {}
        /\ TotalStarted < MaxRuns

\* C2: every run started by generate ends with the order's registry status
\* set to completed or failed, however process_single_order ends; once no
\* worker of the order is in flight the status is not running.
C2_EveryRunEnds ==
    \A o \in Orders : InFlight(o) = {} => ~Running(o)

\* C3: when generate is called with clean=true for an order that has an
\* output directory, the new run writes only after every file left by
\* earlier runs has been removed, also when the removal reports an error.
C3_CleanBeforeWrite ==
    \A t \in DOMAIN worker :
        (worker[t].cleaned /\ NewFiles(worker[t].order) # {}) => OldFiles(worker[t].order) = {}

\* Worker threads of order o whose process_single_order call has not ended.
Processing(o) == { t \in InFlight(o) : worker[t].pc # "done" }

\* C4: from the moment generate accepts a request until the worker's
\* process_single_order call has ended, every status lookup for the order
\* returns running, whatever earlier runs ended with; completed and failed are
\* not returned in between.
C4_RunningWhileInFlight ==
    \A o \in Orders : Processing(o) # {} => get_production_status(o).status = "running"

\* The sheet files every completed run has to have written.
RequiredArtifacts(o) ==
    /\ files[o][<<"sheet", 0, "bg_6up.pdf">>] = "new"
    /\ files[o][<<"sheet", 0, "fg_4up.pdf">>] = "new"
    /\ \E p \in 0..MaxTopPages : files[o][<<"sheet", p, "top.svg">>] = "new"
    /\ \E p \in 0..MaxSpacerPages : files[o][<<"sheet", p, "spacer.svg">>] = "new"

\* C5: a run ends with status completed only if it wrote the background
\* sheet, the foreground sheet, a top-layer file and a spacer file; a run
\* that did not produce them ends with status failed; and while the status
\* is failed every status lookup returns failed with an empty file list.
C5_CompletedOnlyWithArtifacts ==
    \A o \in Orders :
        /\ (PRODUCTION_JOBS[o].status = "completed" /\ InFlight(o) = {}) => RequiredArtifacts(o)
        /\ (PRODUCTION_JOBS[o].status # "none" /\ InFlight(o) = {} /\ ~RequiredArtifacts(o))
              => PRODUCTION_JOBS[o].status = "failed"
        /\ PRODUCTION_JOBS[o].status = "failed"
              => get_production_status(o) = [status |-> "failed", files |-> {}]

\* C6: if the fetch, render or cut step raises for card i, no later card is
\* processed, no order-level sheet file is written by that run, and the run
\* is recorded as failed with the error's message.
C6_CardFailureFailsOrder ==
    /\ [](\A t \in DOMAIN worker :
            worker[t].failedCard >= 0 =>
                /\ worker[t].pc = "except"
                /\ worker[t].i = worker[t].failedCard
                /\ worker[t].exc \in {ErrFetch, ErrRender, ErrCut}
                /\ NewFiles(worker[t].order) \cap SheetFiles = {}
                /\ \A f \in NewFiles(worker[t].order) : f[2] <= worker[t].failedCard)
    /\ [][\A t \in DOMAIN worker :
            (worker[t].failedCard >= 0
                /\ (t \notin DOMAIN worker' \/ worker'[t] # worker[t]))
               => /\ t \notin DOMAIN worker'
                  /\ PRODUCTION_JOBS'[worker[t].order] = FailedJob(worker[t].exc)
                  /\ files' = files]_vars

\* The first of two cards has failed.
C6_Witness ==
    \E t \in DOMAIN worker : worker[t].failedCard = 0 /\ worker[t].n = 2

\* Cards whose render step raised for a missing raw asset.
MissingAssetCards == { i \in PCards : result[i] = ErrMissing }

\* C7 as stated: when rendering raises for a missing raw asset of a card, the
\* failure aborts that card only, in an order as in a batch: the error does
\* not end the pipeline.
C7_MissingAssetAbortsCardOnly ==
    MissingAssetCards # {} => perr # ErrMissing

\* C7 (amended): in run_batch the card is skipped, the error does not leave
\* the pipeline, the remaining cards are processed and a finished batch has
\* built the sheets of its processed cards; in process_single_order the error
\* aborts the whole order: no later card is processed and no sheet is built.
C7_MissingAssetSkipsInBatchAbortsOrder ==
    /\ [](\A i \in MissingAssetCards :
            IF pmode = "batch"
            THEN /\ perr # ErrMissing
                 /\ (ppc = "finished" =>
                        /\ \A j \in 0..(pn - 1) : result[j] # "pending"
                        /\ sheets = CeilDiv(Cardinality(Processed(result)), NUM_PER_SHEET))
            ELSE /\ ppc = "aborted"
                 /\ perr = ErrMissing
                 /\ sheets = 0
                 /\ \A j \in PCards : j > i => result[j] = "pending")
    /\ [][(pmode = "batch" /\ result[pidx] = "pending" /\ result'[pidx] = ErrMissing)
            => IF pidx + 1 < pn
               THEN pidx' = pidx + 1 /\ ppc' = "fetch"
               ELSE ppc' \in {"sheets", "finished"}]_vars

\* A batch has finished with a sheet although the render step of one of its
\* cards raised for a missing raw asset.
C7_Witness ==
    /\ pmode = "batch"
    /\ ppc = "finished"
    /\ MissingAssetCards # {}
    /\ sheets >= 1

\* No source of the design record left a file in a new card directory.
NothingResolved ==
    /\ pmode = "order"
    /\ ppc \in {"render", "cut"}
    /\ \A f \in DirFiles : cdir[f] \notin {"saved", "stale"}

\* C8 as stated: if none of the image sources of the design record resolves,
\* fetch followed by render does not complete normally and no layers are
\* produced for the card.
C8_NoSourceFails ==
    NothingResolved => (ppc # "cut" /\ layers = NoLayers)

\* C8 (amended): if none of the image sources resolves in a new card
\* directory, fetch_assets_from_design still returns normally; unless failed
\* saves left all three snapshot files, it has written hero.png, frame.png and
\* background.jpg (placeholders where nothing else is there), so that render
\* never raises for a missing raw asset; when render returns, the three
\* layers are made from the placeholder hero.png and frame.png and from the
\* background derived from the placeholder hero.
C8_NoSourceRendersPlaceholders ==
    /\ [](NothingResolved =>
            /\ \/ \A f \in Snapshots3 : cdir[f] = "junk"
               \/ \A f \in RawAssets : IsFile(cdir, f)
            /\ ppc = "cut" =>
                  /\ layers.hero = process_hero_with_design(design)
                  /\ layers.frame = process_frame
                  /\ layers.bg = process_background(design)
                  /\ cdir["hero.png"] = "placeholder"
                  /\ cdir["frame.png"] = "placeholder"
                  /\ cdir["background.jpg"] = "derived")
    /\ [][(NothingResolved /\ ppc = "render") => perr' # ErrMissing]_vars

\* Layers have been rendered for a card none of whose sources resolved.
C8_Witness ==
    /\ NothingResolved
    /\ ppc = "cut"
    /\ layers.bg.src = "background.jpg"
    /\ cdir["hero.png"] = "placeholder"

NoCardsErrors == {NoCardsOrderExists, NoCardsUnknown}

\* C9 as stated: with no cards the error is raised before any output
\* directory is created, and the error of an order that exists in the orders
\* table differs from the error of an unknown order.
C9_ErrorTellsExistence ==
    \A t \in DOMAIN worker :
        (worker[t].pc = "except" /\ worker[t].exc \in NoCardsErrors)
           => (worker[t].exc = NoCardsOrderExists <=> worker[t].inDb)

\* C9 (amended): with no cards the error is raised before any output
\* directory is created; the error is the "order exists" error exactly when
\* the order is in the orders table and the lookup of it succeeded, otherwise
\* (unknown order, or failed lookup) it is the "unknown" error.
C9_ErrorTellsExistenceWhenLookupWorks ==
    /\ [](\A t \in DOMAIN worker :
            (worker[t].pc = "except" /\ worker[t].exc \in NoCardsErrors)
               => (worker[t].exc = NoCardsOrderExists
                      <=> (worker[t].inDb /\ worker[t].lookupOk)))
    /\ [][\A t \in DOMAIN worker :
            (worker[t].pc = "start" /\ t \in DOMAIN worker' /\ worker'[t].exc \in NoCardsErrors)
               => (dirExists' = dirExists /\ files' = files)]_vars

\* Both errors occur, each for an order that is in the orders table.
C9_Witness ==
    \E t \in DOMAIN worker :
        /\ worker[t].pc = "except"
        /\ worker[t].exc = NoCardsOrderExists
        /\ worker[t].inDb

AllSnapshots == \A f \in Snapshots3 : IsFile(cdir, f)

LayerSet == {layers.bg, layers.hero, layers.frame}

LatestSheetFiles(o) == NewFiles(o) \cap SheetFiles

\* C26: once the latest run of an order has completed, the files listed by
\* the status lookup and by the files lookup are exactly the sheet files that
\* run wrote; no sheet file left by an earlier run is listed.
C26_OnlyLatestRunListed ==
    \A o \in Orders :
        (PRODUCTION_JOBS[o].status = "completed" /\ InFlight(o) = {})
           => /\ get_production_status(o).files = LatestSheetFiles(o)
              /\ list_production_files(o) = LatestSheetFiles(o)

\* Files of the card directory the layers were made from.
LayerSources ==
    {layers.bg.src, layers.hero.src, layers.frame.src}
       \cup (IF layers.text THEN {"text_snapshot.png"} ELSE {})

\* C27: the render source and the layers of a card depend only on the design
\* record of the current run: after render has returned, no layer is made
\* from a file that an earlier run left in the card directory.
C27_LayersFromCurrentDesign ==
    (pmode = "order" /\ ppc = "cut") => \A f \in LayerSources : cdir[f] # "stale"

\* The step is a generate request that removes the output directory of order
\* o or a file in it.
CleanDeletes(o) ==
    /\ \E clean \in BOOLEAN : generate_production_files(o, clean)
    /\ \/ dirExists[o] /\ ~dirExists'[o]
       \/ \E e \in Entries : files[o][e] # "absent" /\ files'[o][e] = "absent"

\* C29: a generate request removes the output directory of an order, or any
\* file in it, only in a state where the order's registry status is not
\* running and no worker of the order is in flight.
C29_CleanOnlyWhenIdle ==
    [][\A o \in Orders : CleanDeletes(o) => (~Running(o) /\ InFlight(o) = {})]_vars

\* A second run of an order was started with clean after the order's first
\* run had left files, and the directory has been removed.
C29_Witness ==
    \E t \in DOMAIN worker :
        /\ worker[t].cleaned
        /\ started[worker[t].order] = 2
        /\ ~dirExists[worker[t].order]
        /\ Cardinality(InFlight(worker[t].order)) = 1

\* C30: an order whose registry status is completed has an entry in
\* PRODUCTION_OUTPUT_DIRS, and an entry is added only by the step in which a
\* worker's process_single_order call returns normally.
C30_CompletedHasEntry ==
    /\ [](\A o \in Orders :
             PRODUCTION_JOBS[o].status = "completed" => o \in PRODUCTION_OUTPUT_DIRS)
    /\ [][\A o \in Orders :
             (o \in PRODUCTION_OUTPUT_DIRS' /\ o \notin PRODUCTION_OUTPUT_DIRS)
                => \E t \in InFlight(o) : WorkerReturn(t)]_vars

\* The second run of an order, started after the first one had ended, has
\* completed and the order has its entry.
C30_Witness ==
    \E o \in Orders :
        /\ PRODUCTION_JOBS[o].status = "completed"
        /\ InFlight(o) = {}
        /\ started[o] = 2
        /\ o \in PRODUCTION_OUTPUT_DIRS

\* ================================================================ part 3
\* Alpha classification: the contour tracer of cut_paths.py against the
\* alpha hardening render.py applies to frame layers.

\* np.uint8 alpha channel
Alphas == 0..255

\* binary = (alpha >= 128).astype(np.uint8) * 255
_get_alpha_binary(a) == IF a >= 128 THEN 255 ELSE 0

\* a.point(lambda x: 255 if x > 128 else 0): the "harden_alpha" operation of
\* process_frame and of process_frame_snapshot, the same lambda in both.
harden_alpha(x) == IF x > 128 THEN 255 ELSE 0

InitAlpha ==
    /\ alpha \in Alphas
    /\ binary = NotComputed
    /\ hardened = NotComputed

\* The tracer classifies the pixel of a layer image.
TraceAlpha ==
    /\ binary = NotComputed
    /\ binary' = {_get_alpha_binary(alpha)}
    /\ UNCHANGED << alpha, hardened, svars, cvars, gvars, lvars, nvars >>

\* render hardens the pixel of a frame, from the raw asset or from the snapshot.
HardenAlpha ==
    /\ hardened = NotComputed
    /\ hardened' = {harden_alpha(alpha)}
    /\ UNCHANGED << alpha, binary, svars, cvars, gvars, lvars, nvars >>

NextAlpha == TraceAlpha \/ HardenAlpha

InitAlphaSpec ==
    InitServer /\ InitCards /\ InitAlpha /\ InitCutIdle /\ InitLayoutIdle /\ InitNewIdle

SpecAlpha == InitAlphaSpec /\ [][NextAlpha]_vars

\* C20: for every alpha value 0..255 the tracer's classification of a pixel
\* (opaque when _get_alpha_binary gives 255) equals the classification of
\* the frame hardening (opaque when the hardened alpha is 255).
C20_TracerMatchesHardening ==
    (binary # NotComputed /\ hardened # NotComputed)
        => ((binary = {255}) <=> (hardened = {255}))

\* ================================================================ part 4
\* Cut paths of one card directory (cut_paths.py).  A polygon is known by
\* its bounding box b = <<minx, miny, maxx, maxy>> in pixels, its holes,
\* whether it is so thin that an inward buffer of SPACER_INSET_PX leaves
\* nothing, and its exterior: the traced ring, the trim rectangle, or the
\* outline of a merge, with the offset applied to it.  A hole is a ring
\* with the offset applied to it.

\* round(BLEED_INCHES * INPUT_DPI) = round(0.0625 * 300)
TRIM_BLEED_INSET_PX == 19

\* round(SPACER_INSET_MM / 25.4 * INPUT_DPI) = round(5.9)
SPACER_INSET_PX == 6

OUTER_BORDER_TOLERANCE_PX == 5

\* int(2.625 * 300) and int(3.625 * 300): the size render gives every layer
CANVAS_W_PX == 787

CANVAS_H_PX == 1087

\* Small shapes traced in one image beside the large one.
MaxSmall == 1

\* _build_polygons_from_contours: one polygon per outer contour, its child
\* contours as holes.
Poly(b, holes, thin) ==
    [b |-> b, holes |-> holes, thin |-> thin, ext |-> [kind |-> "traced", off |-> 0]]

\* The window of a frame.
Window == [b |-> <<200, 200, CANVAS_W_PX - 200, CANVAS_H_PX - 200>>, off |-> 0]

\* Shapes that span the canvas: the left and right margins range over the
\* values around the two tolerances, the top and bottom edges are touched
\* or missed by 6 pixels.  The shape need not fill its bounding box.
LargePolygons ==
    { Poly(<<ax, ay[1], CANVAS_W_PX - cx, CANVAS_H_PX - ay[2]>>, hs, th) :
        ax \in {0, 5, 6, 24, 25}, cx \in {1, 5, 6, 24, 25},
        ay \in {<<0, 1>>, <<6, 6>>}, hs \in {{}, {Window}}, th \in BOOLEAN }

\* Solid rectangles apart from the large shape and from each other: an
\* island inside the window, a sliver narrower than twice the inset, a
\* shape at the left canvas edge, a shape between trim line and window.
SmallPolygons ==
    { Poly(<<300, 400, 400, 600>>, {}, FALSE),
      Poly(<<450, 400, 455, 600>>, {}, TRUE),
      Poly(<<0, 400, 30, 600>>, {}, FALSE),
      Poly(<<50, 400, 150, 600>>, {}, FALSE) }

\* What the tracer finds in an image: no file, a file cv2 cannot load, no
\* contour, contours without a valid polygon, or polygons.
Traces ==
    { NoTrace, [NoTrace EXCEPT !.state = "unloadable"], [NoTrace EXCEPT !.state = "ok"] }
    \cup { [state |-> "ok", contours |-> TRUE, polygons |-> L \cup S] :
             L \in {{}} \cup {{p} : p \in LargePolygons},
             S \in {T \in SUBSET SmallPolygons : Cardinality(T) <= MaxSmall} }

\* A frame with a window that touches all four edges, or nothing usable.
PlainTraces ==
    { NoTrace, [NoTrace EXCEPT !.state = "unloadable"], [NoTrace EXCEPT !.state = "ok"],
      [state |-> "ok", contours |-> TRUE,
       polygons |-> {Poly(<<0, 0, CANVAS_W_PX - 1, CANVAS_H_PX - 1>>, {Window}, FALSE)}] }

_is_outer_border(poly, canvas_w_px, canvas_h_px) ==
    /\ poly.b[1] <= OUTER_BORDER_TOLERANCE_PX
    /\ poly.b[2] <= OUTER_BORDER_TOLERANCE_PX
    /\ poly.b[3] >= canvas_w_px - OUTER_BORDER_TOLERANCE_PX
    /\ poly.b[4] >= canvas_h_px - OUTER_BORDER_TOLERANCE_PX

\* Variant: the trim rectangle without the holes of the traced polygon.
_trim_rect_polygon_NoHoles(canvas_w_px, canvas_h_px, keep_holes_from) ==
    LET i == TRIM_BLEED_INSET_PX
    IN  [ b |-> <<i, i, canvas_w_px - i, canvas_h_px - i>>,
          holes |-> {},
          thin |-> FALSE,
          ext |-> [kind |-> "trim", off |-> 0] ]

_trim_rect_polygon(canvas_w_px, canvas_h_px, keep_holes_from) ==
    LET i == TRIM_BLEED_INSET_PX
    IN  [ b |-> <<i, i, canvas_w_px - i, canvas_h_px - i>>,
          holes |-> keep_holes_from.holes,
          thin |-> FALSE,
          ext |-> [kind |-> "trim", off |-> 0] ]

_is_trim_rect_border(poly, canvas_w_px, canvas_h_px) ==
    LET i == TRIM_BLEED_INSET_PX
    IN  /\ poly.b[1] <= i + OUTER_BORDER_TOLERANCE_PX
        /\ poly.b[2] <= i + OUTER_BORDER_TOLERANCE_PX
        /\ poly.b[3] >= canvas_w_px - i - OUTER_BORDER_TOLERANCE_PX
        /\ poly.b[4] >= canvas_h_px - i - OUTER_BORDER_TOLERANCE_PX

\* Exterior as it is, every hole grown by inset_px.
_expand_holes_for_spacer(poly, inset_px) ==
    [poly EXCEPT !.holes = {[hole EXCEPT !.off = @ + inset_px] : hole \in poly.holes}]

\* poly.buffer(d) for d < 0, as the set of resulting geometries: none when
\* the polygon is thin, else the polygon with its exterior moved inward and
\* its holes grown.
buffer(poly, d) ==
    IF poly.thin
    THEN {}
    ELSE { [poly EXCEPT !.b = <<@[1] - d, @[2] - d, @[3] + d, @[4] + d>>,
                        !.ext.off = @ + d,
                        !.holes = {[hole EXCEPT !.off = @ - d] : hole \in poly.holes}] }

\* The replacement of outer-border polygons by the trim rectangle.  The
\* polygons of one image are disjoint, so the unary_union before it in
\* process_layer and process_layer_union returns them as they are.
cut_polys(polygons, canvas_w_px, canvas_h_px) ==
    { IF _is_outer_border(poly, canvas_w_px, canvas_h_px)
      THEN _trim_rect_polygon(canvas_w_px, canvas_h_px, poly)
      ELSE poly : poly \in polygons }

\* The spacer loop of process_layer and of process_layer_union_spacer.
spacer_geoms(polys, canvas_w_px, canvas_h_px) ==
    UNION { IF _is_trim_rect_border(poly, canvas_w_px, canvas_h_px)
            THEN IF poly.holes # {}
                 THEN {_expand_holes_for_spacer(poly, SPACER_INSET_PX)}
                 ELSE {poly}
            ELSE buffer(poly, -SPACER_INSET_PX) : poly \in polys }

\* unary_union(spacer_geoms).  Traced shapes stay apart from each other
\* when shrunk, so only the trim rectangle, which covers more than the shape
\* it replaced, can meet another geometry q (a solid rectangle): q is
\* apart when it lies inside a grown hole or outside the rectangle, it is
\* swallowed when it lies inside the rectangle, and otherwise the two merge
\* into one polygon whose exterior runs around both.
unary_union(geoms) ==
    LET Meet(r, q) == r[1] < q[3] /\ q[1] < r[3] /\ r[2] < q[4] /\ q[2] < r[4]
        In(r, q) == q[1] <= r[1] /\ q[2] <= r[2] /\ r[3] <= q[3] /\ r[4] <= q[4]
        Grown(hole) == << hole.b[1] - hole.off, hole.b[2] - hole.off,
                          hole.b[3] + hole.off, hole.b[4] + hole.off >>
        trims == {g \in geoms : g.ext.kind = "trim"}
        Overlap(t, q) == Meet(q.b, t.b) /\ ~ \E hole \in t.holes : In(q.b, Grown(hole))
        Merged(t) ==
            LET out == {q \in geoms \ trims : Overlap(t, q) /\ ~ In(q.b, t.b)}
                Lo(k) == CHOOSE v \in {g.b[k] : g \in out \cup {t}} :
                            \A g \in out \cup {t} : v <= g.b[k]
                Hi(k) == CHOOSE v \in {g.b[k] : g \in out \cup {t}} :
                            \A g \in out \cup {t} : v >= g.b[k]
            IN  IF out = {}
                THEN t
                ELSE [t EXCEPT !.ext = [kind |-> "merged", off |-> 0],
                               !.b = << Lo(1), Lo(2), Hi(3), Hi(4) >>]
    IN  {Merged(t) : t \in trims}
        \cup {q \in geoms \ trims : ~ \E t \in trims : Overlap(t, q)}

_write_svg(polys) == [exists |-> TRUE, paths |-> polys]

_write_empty_svg == [exists |-> TRUE, paths |-> {}]

\* Variant: no spacer file when every spacer shape collapses.
process_layer_NoEmptySpacer(tr, canvas_w_px, canvas_h_px) ==
    IF tr.state # "ok"
    THEN [raised |-> TRUE, cut |-> NoFile, spacer |-> NoFile]
    ELSE IF ~ tr.contours \/ tr.polygons = {}
    THEN [raised |-> FALSE, cut |-> _write_empty_svg, spacer |-> _write_empty_svg]
    ELSE LET polys == cut_polys(tr.polygons, canvas_w_px, canvas_h_px)
             geoms == spacer_geoms(polys, canvas_w_px, canvas_h_px)
         IN  [ raised |-> FALSE,
               cut |-> _write_svg(polys),
               spacer |-> IF geoms # {} THEN _write_svg(geoms) ELSE NoFile ]

\* process_layer on one image: [raised, cut, spacer].
process_layer(tr, canvas_w_px, canvas_h_px) ==
    IF tr.state # "ok"
    THEN [raised |-> TRUE, cut |-> NoFile, spacer |-> NoFile]
    ELSE IF ~ tr.contours \/ tr.polygons = {}
    THEN [raised |-> FALSE, cut |-> _write_empty_svg, spacer |-> _write_empty_svg]
    ELSE LET polys == cut_polys(tr.polygons, canvas_w_px, canvas_h_px)
             geoms == spacer_geoms(polys, canvas_w_px, canvas_h_px)
         IN  [ raised |-> FALSE,
               cut |-> _write_svg(polys),
               spacer |-> IF geoms # {} THEN _write_svg(geoms) ELSE _write_empty_svg ]

\* process_layer_union on the two images a and b, whose merged mask traces
\* to tr: the file written.
process_layer_union(a, b, tr, canvas_w_px, canvas_h_px) ==
    IF a.state # "ok" \/ b.state # "ok"
    THEN _write_empty_svg
    ELSE IF ~ tr.contours \/ tr.polygons = {}
    THEN _write_empty_svg
    ELSE _write_svg(cut_polys(tr.polygons, canvas_w_px, canvas_h_px))

process_layer_union_spacer(a, b, tr, canvas_w_px, canvas_h_px) ==
    IF a.state # "ok" \/ b.state # "ok"
    THEN _write_empty_svg
    ELSE IF ~ tr.contours \/ tr.polygons = {}
    THEN _write_empty_svg
    ELSE LET geoms == spacer_geoms(cut_polys(tr.polygons, canvas_w_px, canvas_h_px),
                                   canvas_w_px, canvas_h_px)
         IN  IF geoms = {} THEN _write_empty_svg ELSE _write_svg(unary_union(geoms))

\* The traces of the merged mask np.maximum(binary_a, binary_b), given the
\* traces a and b of the two images.  An image without a polygon adds
\* nothing, so the merged mask traces like the other image.  When both have
\* polygons, the merged mask has contours, every polygon of a and b lies
\* within a polygon of it, its small shapes come from a or b, and its large
\* shape is thin only if theirs are.
MergedTraces(a, b) ==
    IF a.state # "ok" \/ b.state # "ok"
    THEN {[NoTrace EXCEPT !.state = "ok"]}
    ELSE IF b.polygons = {}
    THEN {[a EXCEPT !.contours = a.contours \/ b.contours]}
    ELSE IF a.polygons = {}
    THEN {[b EXCEPT !.contours = TRUE]}
    ELSE { m \in Traces :
             /\ m.contours
             /\ \A p \in a.polygons \cup b.polygons :
                   \E q \in m.polygons :
                      /\ q.b[1] <= p.b[1] /\ q.b[2] <= p.b[2]
                      /\ p.b[3] <= q.b[3] /\ p.b[4] <= q.b[4]
                      /\ q.thin => p.thin
             /\ m.polygons \cap SmallPolygons \subseteq a.polygons \cup b.polygons }

\* A card directory before run_for_dir: one of the two images ranges over
\* all traces, the other over the plain ones.
InitCut ==
    /\ \E r \in Traces, o \in PlainTraces, swap \in BOOLEAN :
          LET a == IF swap THEN o ELSE r
              b == IF swap THEN r ELSE o
          IN  \E m \in MergedTraces(a, b) :
                 traced = [l \in CutLayers |->
                             IF l = "hero" THEN a ELSE IF l = "frame" THEN b ELSE m]
    /\ svgs = [f \in SvgNames |-> NoFile]
    /\ cutpc = "start"

\* run_for_dir up to its first process_layer call: both layer images must
\* be files.
run_for_dir ==
    /\ cutpc = "start"
    /\ cutpc' = IF traced["hero"].state = "missing" \/ traced["frame"].state = "missing"
                THEN "raised"
                ELSE "hero"
    /\ UNCHANGED << traced, svgs, avars, svars, cvars, lvars, nvars >>

\* process_layer(hero_path, "hero") and process_layer(frame_path, "frame")
ProcessLayer(name) ==
    /\ cutpc = name
    /\ LET r == process_layer(traced[name], CANVAS_W_PX, CANVAS_H_PX)
       IN  IF r.raised
           THEN cutpc' = "raised" /\ UNCHANGED svgs
           ELSE /\ svgs' = [svgs EXCEPT ![name \o "_cut.svg"] = r.cut,
                                        ![name \o "_spacer.svg"] = r.spacer]
                /\ cutpc' = IF name = "hero" THEN "frame" ELSE "union"
    /\ UNCHANGED << traced, avars, svars, cvars, lvars, nvars >>

ProcessLayerUnion ==
    /\ cutpc = "union"
    /\ svgs' = [svgs EXCEPT !["hero_frame_cut.svg"] =
                   process_layer_union(traced["hero"], traced["frame"], traced["hero_frame"],
                                       CANVAS_W_PX, CANVAS_H_PX)]
    /\ cutpc' = "union_spacer"
    /\ UNCHANGED << traced, avars, svars, cvars, lvars, nvars >>

ProcessLayerUnionSpacer ==
    /\ cutpc = "union_spacer"
    /\ svgs' = [svgs EXCEPT !["hero_frame_spacer.svg"] =
                   process_layer_union_spacer(traced["hero"], traced["frame"],
                                              traced["hero_frame"],
                                              CANVAS_W_PX, CANVAS_H_PX)]
    /\ cutpc' = "returned"
    /\ UNCHANGED << traced, avars, svars, cvars, lvars, nvars >>

NextCut ==
    \/ run_for_dir
    \/ ProcessLayer("hero")
    \/ ProcessLayer("frame")
    \/ ProcessLayerUnion
    \/ ProcessLayerUnionSpacer

InitCutSpec ==
    InitServer /\ InitCards /\ InitAlphaIdle /\ InitCut /\ InitLayoutIdle /\ InitNewIdle

SpecCut == InitCutSpec /\ [][NextCut]_vars

\* ------------------------------------------------- claims on the cut paths
TrimExterior ==
    [ b |-> << TRIM_BLEED_INSET_PX, TRIM_BLEED_INSET_PX,
               CANVAS_W_PX - TRIM_BLEED_INSET_PX, CANVAS_H_PX - TRIM_BLEED_INSET_PX >>,
      ext |-> [kind |-> "trim", off |-> 0] ]

\* The opaque region of the polygon touches all four canvas edges.
TouchesAllEdges(p) == p.b = << 0, 0, CANVAS_W_PX - 1, CANVAS_H_PX - 1 >>

\* C11: in every cut file written (hero and frame by process_layer,
\* hero_frame by process_layer_union) a traced polygon that touches all four
\* canvas edges is replaced by a polygon whose exterior is the trim
\* rectangle, whatever its shape and area, with exactly the traced holes,
\* unchanged; a traced polygon that is not outer border is in the file as
\* traced.
C11_OuterBorderCutAtTrim ==
    \A l \in CutLayers :
        svgs[l \o "_cut.svg"].exists =>
            \A p \in traced[l].polygons :
                /\ TouchesAllEdges(p) =>
                      \E q \in svgs[l \o "_cut.svg"].paths :
                          /\ q.b = TrimExterior.b
                          /\ q.ext = TrimExterior.ext
                          /\ q.holes = p.holes
                /\ ~ _is_outer_border(p, CANVAS_W_PX, CANVAS_H_PX) =>
                      p \in svgs[l \o "_cut.svg"].paths

\* The merged cut file is written from a thin shape with a window that
\* touches all four edges and from a small shape beside it.
C11_Witness ==
    /\ svgs["hero_frame_cut.svg"].exists
    /\ svgs["hero_cut.svg"].paths # {}
    /\ \E p, q \in traced["hero_frame"].polygons :
          /\ TouchesAllEdges(p) /\ p.holes = {Window} /\ p.thin
          /\ q \in SmallPolygons
          /\ Cardinality(svgs["hero_frame_cut.svg"].paths) = 2

\* C12: where a cut file and its spacer file are both written, every
\* trim-rectangle exterior of the cut file is the exterior of a polygon of
\* the spacer file, at zero offset.
C12_SpacerExteriorEqualsCutExterior ==
    \A l \in CutLayers :
        (svgs[l \o "_cut.svg"].exists /\ svgs[l \o "_spacer.svg"].exists) =>
            \A c \in svgs[l \o "_cut.svg"].paths :
                c.ext.kind = "trim" =>
                    \E q \in svgs[l \o "_spacer.svg"].paths :
                        q.b = c.b /\ q.ext = c.ext

\* C13: in the spacer file process_layer writes, every traced polygon that
\* is not outer border appears shrunk by SPACER_INSET_PX, or not at all when
\* shrinking leaves nothing, and never at zero offset.
C13_InteriorShapesShrunk ==
    \A l \in {"hero", "frame"} :
        svgs[l \o "_spacer.svg"].exists =>
            \A p \in traced[l].polygons :
                ~ _is_outer_border(p, CANVAS_W_PX, CANVAS_H_PX) =>
                    LET paths == svgs[l \o "_spacer.svg"].paths
                        kept == {q \in paths : q.ext = [kind |-> "traced", off |-> 0]
                                               /\ q.b = p.b}
                        shrunk == {q \in paths :
                                     /\ q.ext = [kind |-> "traced", off |-> -SPACER_INSET_PX]
                                     /\ q.b = << p.b[1] + SPACER_INSET_PX,
                                                 p.b[2] + SPACER_INSET_PX,
                                                 p.b[3] - SPACER_INSET_PX,
                                                 p.b[4] - SPACER_INSET_PX >>}
                    IN  kept = {} /\ (shrunk # {} <=> ~ p.thin)

\* The spacer shapes of the trace all collapse: thin, and inside the canvas.
AllCollapse(tr) ==
    /\ tr.polygons # {}
    /\ \A p \in tr.polygons :
          p.thin /\ ~ _is_trim_rect_border(p, CANVAS_W_PX, CANVAS_H_PX)

\* C14: when run_for_dir has returned, the six vector files exist; the two
\* files of a layer without contours or without a valid polygon, and the
\* spacer file of a layer whose spacer shapes all collapse, have no path.
C14_SixFilesAlways ==
    cutpc = "returned" =>
        /\ \A f \in SvgNames : svgs[f].exists
        /\ \A l \in CutLayers :
              /\ (~ traced[l].contours \/ traced[l].polygons = {}) =>
                    /\ svgs[l \o "_cut.svg"].paths = {}
                    /\ svgs[l \o "_spacer.svg"].paths = {}
              /\ AllCollapse(traced[l]) => svgs[l \o "_spacer.svg"].paths = {}

\* run_for_dir has returned for a hero whose only shape collapses and a
\* frame without contours.
C14_Witness ==
    /\ cutpc = "returned"
    /\ AllCollapse(traced["hero"])
    /\ ~ traced["frame"].contours
    /\ svgs["hero_cut.svg"].paths # {}
    /\ svgs["hero_spacer.svg"] = _write_empty_svg

\* Two polygons of a file have a point of their regions in common.  Traced
\* polygons are apart from each other, also when shrunk; a polygon whose
\* exterior is the trim rectangle (or was merged with it) fills the
\* rectangle outside its holes, so that it meets every polygon that reaches
\* into the rectangle and does not lie inside one of the holes.
PolysIntersect(p, q) ==
    LET Meet(r, u) == r[1] < u[3] /\ u[1] < r[3] /\ r[2] < u[4] /\ u[2] < r[4]
        In(r, u) == u[1] <= r[1] /\ u[2] <= r[2] /\ r[3] <= u[3] /\ r[4] <= u[4]
        Grown(hole) == << hole.b[1] - hole.off, hole.b[2] - hole.off,
                          hole.b[3] + hole.off, hole.b[4] + hole.off >>
        Filled(t) == t.ext.kind \in {"trim", "merged"}
        Reaches(t, u) == Meet(u.b, t.b) /\ ~ \E hole \in t.holes : In(u.b, Grown(hole))
    IN  IF Filled(p) /\ Filled(q) THEN TRUE
        ELSE IF Filled(p) THEN Reaches(p, q)
        ELSE IF Filled(q) THEN Reaches(q, p)
        ELSE FALSE

\* C24: the polygons written to one cut or spacer file never overlap: after
\* merging, trim-rectangle substitution and spacer offsetting no two
\* polygons of a file intersect; at most one trim rectangle is in a file and
\* no other polygon of the file lies inside it outside its holes.
C24_EmittedPolygonsDisjoint ==
    \A f \in SvgNames :
        \A p \in svgs[f].paths : \A q \in svgs[f].paths :
            p # q => ~ PolysIntersect(p, q)

\* ================================================================ part 5
\* Sheet layout (pdf_builder.py) for the cards of an order
\* (process_single_order) and of a batch (run_batch).  A file of a card is
\* << card index, file name >>; a page maps each slot position << row, col >>
\* to the file placed there, or to Blank.

MaxLayoutCards == 10

Blank == << -1, "blank" >>

\* s[start:end] of a Python list
Slice(s, start, end) == SubSeq(s, start + 1, IF end < Len(s) THEN end ELSE Len(s))

\* [d / name for d in card_dirs if (d / name).is_file()]: after the card
\* loop every card directory holds every file of RenderWrites and CutWrites.
CardPaths(n, name) == [k \in 1..n |-> << k - 1, name >>]

\* Top-left corners of the 4 slots, row-major, as << row, col >>:
\* x = CUT4UP_MARG_LEFT + col * LAYER_W_IN, y = CUT4UP_MARG_TOP + row * LAYER_H_IN.
_cut_4up_slot_positions == << <<0, 0>>, <<0, 1>>, <<1, 0>>, <<1, 1>> >>

\* The page a 4-up builder draws: at positions[i] the file Content(i).
Page4up(Content(_)) ==
    [ pos \in {_cut_4up_slot_positions[k] : k \in 1..Len(_cut_4up_slot_positions)} |->
        Content((CHOOSE k \in 1..Len(_cut_4up_slot_positions) :
                    _cut_4up_slot_positions[k] = pos) - 1) ]

\* Variant: per card the frame+text image first.
foreground_images_FrameFirst(n) ==
    [ k \in 1..(2 * n) |->
        IF k % 2 = 1
        THEN << (k - 1) \div 2, "print_layer_3_frame_text.png" >>
        ELSE << (k - 1) \div 2, "print_layer_2_hero.png" >> ]

\* process_single_order, lines 145-155: per card the hero image, then the
\* frame+text image (print_layer_3_frame_text.png is a file after render).
foreground_images(n) ==
    [ k \in 1..(2 * n) |->
        IF k % 2 = 1
        THEN << (k - 1) \div 2, "print_layer_2_hero.png" >>
        ELSE << (k - 1) \div 2, "print_layer_3_frame_text.png" >> ]

FOREGROUND_BLEED_PX == 2

\* << width, height >> in pixels of a file render writes: the three layers
\* are saved at the canvas size, the three composites on a canvas expanded
\* by the bleed on each side.
ImageSize(name) ==
    IF name \in {"print_foreground.png", "print_hero_frame.png",
                 "print_layer_3_frame_text.png"}
    THEN << CANVAS_W_PX + 2 * FOREGROUND_BLEED_PX, CANVAS_H_PX + 2 * FOREGROUND_BLEED_PX >>
    ELSE << CANVAS_W_PX, CANVAS_H_PX >>

\* The pages of the foreground PDF: chunks of 4 images, image i of a chunk
\* at positions[i].
create_foreground_sheet(images) ==
    LET n_slots_per_page == 2 * 2
    IN  [ page \in 1..CeilDiv(Len(images), n_slots_per_page) |->
            LET chunk == Slice(images, (page - 1) * n_slots_per_page,
                               page * n_slots_per_page)
                Content(i) == IF i < Len(chunk) THEN chunk[i + 1] ELSE Blank
            IN  Page4up(Content) ]

\* Variant: the even slot takes the frame cut, the odd slot the merged cut.
build_top_layers_cutlines_svg_Swapped(hero_frame_cut_paths, frame_cut_paths) ==
    LET Content(i) ==
            LET card_idx == i \div 2
                is_left == (i % 2 = 0)
            IN  IF is_left /\ card_idx < Len(frame_cut_paths)
                THEN frame_cut_paths[card_idx + 1]
                ELSE IF ~ is_left /\ card_idx < Len(hero_frame_cut_paths)
                THEN hero_frame_cut_paths[card_idx + 1]
                ELSE Blank
    IN  Page4up(Content)

\* One top-layer file: slot i belongs to card i // 2 of the page; the even
\* slot takes its merged cut, the odd slot its frame cut.
build_top_layers_cutlines_svg(hero_frame_cut_paths, frame_cut_paths) ==
    LET Content(i) ==
            LET card_idx == i \div 2
                is_left == (i % 2 = 0)
            IN  IF is_left /\ card_idx < Len(hero_frame_cut_paths)
                THEN hero_frame_cut_paths[card_idx + 1]
                ELSE IF ~ is_left /\ card_idx < Len(frame_cut_paths)
                THEN frame_cut_paths[card_idx + 1]
                ELSE Blank
    IN  Page4up(Content)

build_spacers_cutlines_svg(hero_frame_spacer_paths, frame_spacer_paths) ==
    LET Content(i) ==
            LET card_idx == i \div 2
                is_left == (i % 2 = 0)
            IN  IF is_left /\ card_idx < Len(hero_frame_spacer_paths)
                THEN hero_frame_spacer_paths[card_idx + 1]
                ELSE IF ~ is_left /\ card_idx < Len(frame_spacer_paths)
                THEN frame_spacer_paths[card_idx + 1]
                ELSE Blank
    IN  Page4up(Content)

\* Variant: every entry once.
Duplicated_Once(paths) == paths

\* hf_s_all / f_s_all: every entry of the list twice.
Duplicated(paths) == [k \in 1..(2 * Len(paths)) |-> paths[(k + 1) \div 2]]

\* build_cut_master_svg_ganged, and with images build_print_sheet_pdf_ganged:
\* NUM_ROWS rows, heroes in column 0 and frames in column 1; any other
\* number of paths raises ValueError.
build_cut_master_svg_ganged(hero_svg_paths, frame_svg_paths) ==
    LET NUM_ROWS == 3
    IN  IF Len(hero_svg_paths) # NUM_ROWS \/ Len(frame_svg_paths) # NUM_ROWS
        THEN [raised |-> TRUE, slots |-> << >>]
        ELSE [ raised |-> FALSE,
               slots |-> [ pos \in (0..(NUM_ROWS - 1)) \X (0..1) |->
                             IF pos[2] = 0
                             THEN hero_svg_paths[pos[1] + 1]
                             ELSE frame_svg_paths[pos[1] + 1] ] ]

\* Variant: a short chunk is padded with its last card.
PaddedChunk_PadLast(processed, i) ==
    LET original == Slice(processed, i, i + NUM_PER_SHEET)
    IN  [ k \in 1..NUM_PER_SHEET |->
            IF k <= Len(original) THEN original[k] ELSE original[Len(original)] ]

\* run_batch, lines 108-112: processed[i : i + 3], padded to 3 with its
\* first card.
PaddedChunk(processed, i) ==
    LET original == Slice(processed, i, i + NUM_PER_SHEET)
    IN  [ k \in 1..NUM_PER_SHEET |->
            IF k <= Len(original) THEN original[k] ELSE original[1] ]

\* client.table("cards").update(...).execute() of one card: the status is
\* set; PostgrestAPIError (caught and logged, lines 136-137); or any other
\* exception, e.g. of the connection, which leaves run_batch.
UpdateOutcomes == {"updated", "api_error", "raised"}

\* run_batch, lines 132-137, for a chunk of m cards: the outcomes of the
\* updates attempted, in order; none if SKIP_STATUS_UPDATE, and none after
\* an update that raised.
StatusUpdates(m, skip) ==
    IF skip THEN { << >> }
    ELSE { r \in UNION { [1..k -> UpdateOutcomes] : k \in 0..m } :
             /\ \A j \in 1..(Len(r) - 1) : r[j] # "raised"
             /\ Len(r) < m => (Len(r) >= 1 /\ r[Len(r)] = "raised") }

InitLayout ==
    /\ \E m \in {"order", "batch"}, n \in 1..MaxLayoutCards, skip \in BOOLEAN :
          /\ lrun = [mode |-> m, n |-> n, stage |-> IF m = "order" THEN "fg" ELSE "ganged",
                     p |-> 0]
          /\ lstatus = [skip |-> (m = "batch" /\ skip), attempts |-> [c \in 1..n |-> 0],
                        updated |-> {}]
    /\ lsheets = NoSheets

\* process_single_order, lines 144-159
LayoutForeground ==
    /\ lrun.mode = "order" /\ lrun.stage = "fg"
    /\ lsheets' = [lsheets EXCEPT !.fg = create_foreground_sheet(foreground_images(lrun.n))]
    /\ lrun' = [lrun EXCEPT !.stage = "top"]
    /\ UNCHANGED << lstatus, avars, gvars, svars, cvars, nvars >>

\* process_single_order, lines 165-172: page p of the top-layer files
LayoutTop ==
    /\ lrun.mode = "order" /\ lrun.stage = "top"
    /\ LET p == lrun.p
           start == p * cards_per_page
           end == IF start + cards_per_page < lrun.n
                  THEN start + cards_per_page ELSE lrun.n
           hf_c == Slice(CardPaths(lrun.n, "hero_frame_cut.svg"), start, end)
           f_c == Slice(CardPaths(lrun.n, "frame_cut.svg"), start, end)
       IN  /\ lsheets' = [lsheets EXCEPT
                             !.top = Append(@, build_top_layers_cutlines_svg(hf_c, f_c))]
           /\ lrun' = IF p + 1 < num_top_pages(lrun.n)
                      THEN [lrun EXCEPT !.p = p + 1]
                      ELSE [lrun EXCEPT !.stage = "spacer", !.p = 0]
    /\ UNCHANGED << lstatus, avars, gvars, svars, cvars, nvars >>

\* process_single_order, lines 174-189: page p of the spacer files
LayoutSpacer ==
    /\ lrun.mode = "order" /\ lrun.stage = "spacer"
    /\ LET p == lrun.p
           hf_s_all == Duplicated(CardPaths(lrun.n, "hero_frame_spacer.svg"))
           f_s_all == Duplicated(CardPaths(lrun.n, "frame_spacer.svg"))
           start == p * cards_per_page
           end == IF start + cards_per_page < Len(hf_s_all)
                  THEN start + cards_per_page ELSE Len(hf_s_all)
       IN  /\ lsheets' = [lsheets EXCEPT
                             !.spacer = Append(@, build_spacers_cutlines_svg(
                                                     Slice(hf_s_all, start, end),
                                                     Slice(f_s_all, start, end)))]
           /\ lrun' = IF p + 1 < CeilDiv(Len(hf_s_all), cards_per_page)
                      THEN [lrun EXCEPT !.p = p + 1]
                      ELSE [lrun EXCEPT !.stage = "done", !.p = 0]
    /\ UNCHANGED << lstatus, avars, gvars, svars, cvars, nvars >>

\* run_batch, lines 107-137: one sheet of the batch, its print PDF, its cut
\* file and its spacer file, then the status updates of the chunk's cards.
LayoutGanged ==
    /\ lrun.mode = "batch" /\ lrun.stage = "ganged"
    /\ LET i == lrun.p * NUM_PER_SHEET
           processed == [k \in 1..lrun.n |-> k - 1]
           original == Slice(processed, i, i + NUM_PER_SHEET)
           chunk == PaddedChunk(processed, i)
           Paths(name) == [k \in 1..Len(chunk) |-> << chunk[k], name >>]
       IN  /\ lsheets' = [lsheets EXCEPT !.ganged = Append(@,
                 [ pdf |-> build_cut_master_svg_ganged(Paths("print_layer_2_hero.png"),
                                                       Paths("print_layer_3_frame.png")),
                   cut |-> build_cut_master_svg_ganged(Paths("hero_cut.svg"),
                                                       Paths("frame_cut.svg")),
                   spacer |-> build_cut_master_svg_ganged(Paths("hero_spacer.svg"),
                                                          Paths("frame_spacer.svg")) ])]
           /\ \E r \in StatusUpdates(Len(original), lstatus.skip) :
                 /\ lstatus' = [lstatus EXCEPT
                        !.attempts = [c \in DOMAIN @ |->
                                        @[c] + Cardinality({j \in 1..Len(r) : original[j] = c - 1})],
                        !.updated = @ \cup {original[j] : j \in {k \in 1..Len(r) : r[k] = "updated"}}]
                 /\ lrun' = IF \E j \in 1..Len(r) : r[j] = "raised"
                            THEN [lrun EXCEPT !.stage = "raised"]
                            ELSE IF i + NUM_PER_SHEET < lrun.n
                            THEN [lrun EXCEPT !.p = @ + 1]
                            ELSE [lrun EXCEPT !.stage = "done", !.p = 0]
    /\ UNCHANGED << avars, gvars, svars, cvars, nvars >>

NextLayout == LayoutForeground \/ LayoutTop \/ LayoutSpacer \/ LayoutGanged

InitLayoutSpec ==
    InitServer /\ InitCards /\ InitAlphaIdle /\ InitCutIdle /\ InitLayout /\ InitNewIdle

SpecLayout == InitLayoutSpec /\ [][NextLayout]_vars

\* --------------------------------------------- claims on the sheet layout
\* C15: when run_batch has built the sheets of N >= 1 processed cards,
\* there are ceil(N/3) of them, and on each the three rows hold, as hero
\* entry and as frame entry, the cards of the chunk in order and then, for
\* a chunk of 1 or 2 cards, the first card of the chunk again.
C15_GangedSheetsPadded ==
    (lrun.mode = "batch" /\ lrun.stage = "done") =>
        /\ Len(lsheets.ganged) = CeilDiv(lrun.n, 3)
        /\ \A k \in 1..Len(lsheets.ganged) :
              \A row \in 0..2 :
                  LET first == 3 * (k - 1)
                      card == IF first + row < lrun.n THEN first + row ELSE first
                      sheet == lsheets.ganged[k]
                  IN  /\ ~ sheet.pdf.raised /\ ~ sheet.cut.raised /\ ~ sheet.spacer.raised
                      /\ DOMAIN sheet.cut.slots = (0..2) \X (0..1)
                      /\ sheet.pdf.slots[<<row, 0>>] = <<card, "print_layer_2_hero.png">>
                      /\ sheet.pdf.slots[<<row, 1>>] = <<card, "print_layer_3_frame.png">>
                      /\ sheet.cut.slots[<<row, 0>>] = <<card, "hero_cut.svg">>
                      /\ sheet.cut.slots[<<row, 1>>] = <<card, "frame_cut.svg">>
                      /\ sheet.spacer.slots[<<row, 0>>] = <<card, "hero_spacer.svg">>
                      /\ sheet.spacer.slots[<<row, 1>>] = <<card, "frame_spacer.svg">>

\* A batch of 5 cards is done: the second sheet holds cards 3, 4 and 3.
C15_Witness ==
    /\ lrun.mode = "batch" /\ lrun.stage = "done" /\ lrun.n = 5
    /\ Len(lsheets.ganged) = 2
    /\ lsheets.ganged[2].cut.slots[<<1, 0>>] = <<4, "hero_cut.svg">>
    /\ lsheets.ganged[2].cut.slots[<<2, 0>>] = <<3, "hero_cut.svg">>

\* C16: when process_single_order has written the top-layer files of an
\* order of N >= 1 cards, there are ceil(N/2) of them (3 for N = 5); on page
\* p the upper row holds card 2p and the lower row card 2p+1, the merged
\* hero+frame cut left and the frame cut right, and the lower row is blank
\* when there is no card 2p+1.
C16_TopLayerPages ==
    (lrun.mode = "order" /\ lrun.stage \in {"spacer", "done"}) =>
        /\ Len(lsheets.top) = CeilDiv(lrun.n, 2)
        /\ lrun.n = 5 => Len(lsheets.top) = 3
        /\ \A p \in 0..(Len(lsheets.top) - 1) :
              LET page == lsheets.top[p + 1]
              IN  /\ page[<<0, 0>>] = << 2 * p, "hero_frame_cut.svg" >>
                  /\ page[<<0, 1>>] = << 2 * p, "frame_cut.svg" >>
                  /\ IF 2 * p + 1 < lrun.n
                     THEN /\ page[<<1, 0>>] = << 2 * p + 1, "hero_frame_cut.svg" >>
                          /\ page[<<1, 1>>] = << 2 * p + 1, "frame_cut.svg" >>
                     ELSE page[<<1, 0>>] = Blank /\ page[<<1, 1>>] = Blank

\* The top-layer files of an order of 5 cards are written: the third has
\* card 4 in the upper row and a blank lower row.
C16_Witness ==
    /\ lrun.mode = "order" /\ lrun.stage = "spacer" /\ lrun.n = 5
    /\ Len(lsheets.top) = 3
    /\ lsheets.top[3][<<0, 1>>] = << 4, "frame_cut.svg" >>
    /\ lsheets.top[3][<<1, 0>>] = Blank

\* The slots of the spacer files that hold the file.
SpacerPlacements(file) ==
    { kp \in (1..Len(lsheets.spacer)) \X {<<0, 0>>, <<0, 1>>, <<1, 0>>, <<1, 1>>} :
        lsheets.spacer[kp[1]][kp[2]] = file }

\* C17: when process_single_order has written the spacer files of an order
\* of N >= 1 cards, each card's merged hero+frame spacer is placed in exactly
\* two slots and its frame spacer in exactly two slots, the merged one in the
\* left column and the frame one in the right column of the same 2x2 grid as
\* the top-layer files, and no slot holds anything else.
C17_SpacersPlacedTwice ==
    (lrun.mode = "order" /\ lrun.stage = "done") =>
        /\ \A i \in 0..(lrun.n - 1) :
              /\ Cardinality(SpacerPlacements(<< i, "hero_frame_spacer.svg" >>)) = 2
              /\ Cardinality(SpacerPlacements(<< i, "frame_spacer.svg" >>)) = 2
              /\ \A kp \in SpacerPlacements(<< i, "hero_frame_spacer.svg" >>) : kp[2][2] = 0
              /\ \A kp \in SpacerPlacements(<< i, "frame_spacer.svg" >>) : kp[2][2] = 1
        /\ \A k \in 1..Len(lsheets.spacer) :
              /\ DOMAIN lsheets.spacer[k] = DOMAIN lsheets.top[1]
              /\ \A pos \in DOMAIN lsheets.spacer[k] :
                    /\ lsheets.spacer[k][pos][1] \in 0..(lrun.n - 1)
                    /\ lsheets.spacer[k][pos][2]
                          \in {"hero_frame_spacer.svg", "frame_spacer.svg"}

\* The spacer files of an order of 3 cards are written: three pages, the
\* last with card 2 in both rows.
C17_Witness ==
    /\ lrun.mode = "order" /\ lrun.stage = "done" /\ lrun.n = 3
    /\ Len(lsheets.spacer) = 3
    /\ lsheets.spacer[3][<<0, 0>>] = << 2, "hero_frame_spacer.svg" >>
    /\ lsheets.spacer[3][<<1, 1>>] = << 2, "frame_spacer.svg" >>

\* C18: in the foreground sheet of an N-card order, slot i (row-major) of
\* page p holds, for card 2p + (i div 2), the hero image when i is even and
\* the frame+text image when i is odd, and is blank when there is no such
\* card; once the top-layer files are written, page p of the sheet and
\* top-layer file p hold the same card in every slot, the hero image where
\* the merged cut is and the frame+text image where the frame cut is.
C18_ForegroundSlotsMatchCuts ==
    (lrun.mode = "order" /\ lrun.stage # "fg") =>
        /\ Len(lsheets.fg) = CeilDiv(lrun.n, 2)
        /\ \A p \in 0..(Len(lsheets.fg) - 1) :
              \A i \in 0..3 :
                  LET card == 2 * p + (i \div 2)
                  IN  lsheets.fg[p + 1][<< i \div 2, i % 2 >>] =
                         IF card >= lrun.n
                         THEN Blank
                         ELSE IF i % 2 = 0
                         THEN << card, "print_layer_2_hero.png" >>
                         ELSE << card, "print_layer_3_frame_text.png" >>
        /\ lrun.stage \in {"spacer", "done"} =>
              /\ Len(lsheets.fg) = Len(lsheets.top)
              /\ \A k \in 1..Len(lsheets.top) :
                    \A pos \in DOMAIN lsheets.top[k] :
                        LET cut == lsheets.top[k][pos]
                            img == lsheets.fg[k][pos]
                        IN  /\ cut[1] = img[1]
                            /\ (cut[2] = "hero_frame_cut.svg")
                                  <=> (img[2] = "print_layer_2_hero.png")
                            /\ (cut[2] = "frame_cut.svg")
                                  <=> (img[2] = "print_layer_3_frame_text.png")

\* The foreground sheet and the top-layer files of an order of 3 cards are
\* written: page 2 holds card 2 in the upper row only.
C18_Witness ==
    /\ lrun.mode = "order" /\ lrun.stage = "spacer" /\ lrun.n = 3
    /\ Len(lsheets.fg) = 2
    /\ lsheets.fg[2][<<0, 1>>] = << 2, "print_layer_3_frame_text.png" >>
    /\ lsheets.fg[2][<<1, 0>>] = Blank
    /\ lsheets.top[2][<<0, 1>>] = << 2, "frame_cut.svg" >>

\* C19: the six images render writes for a card have one pixel size, and
\* every image placed in a slot of the foreground sheet has the size of the
\* hero and frame layers, from which the card's cut paths are traced.
C19_OneImageSize ==
    (lrun.mode = "order" /\ lrun.stage # "fg") =>
        /\ \A f, g \in RenderWrites : ImageSize(f) = ImageSize(g)
        /\ \A k \in 1..Len(lsheets.fg) :
              \A pos \in DOMAIN lsheets.fg[k] :
                  lsheets.fg[k][pos] # Blank =>
                      ImageSize(lsheets.fg[k][pos][2]) = ImageSize("print_layer_3_frame.png")

\* Cards placed on a sheet of the batch built so far.
PlacedCards ==
    { lsheets.ganged[k].cut.slots[pos][1] :
        k \in 1..Len(lsheets.ganged), pos \in (0..2) \X (0..1) }

\* C23: in run_batch a failure of the status update of any card never
\* prevents the batch from completing: no failed update ends the batch, so
\* that every sheet is still written; and the update is attempted only for
\* cards placed on a sheet, at most once per card (not for the padding
\* repetitions).
C23_StatusFailureNeverAborts ==
    lrun.mode = "batch" =>
        /\ lrun.stage # "raised"
        /\ \A c \in DOMAIN lstatus.attempts :
              /\ lstatus.attempts[c] <= 1
              /\ lstatus.attempts[c] = 1 => (c - 1) \in PlacedCards

\* ================================================================ part 6
\* The sheet builders of pdf_builder.py called on paths whose files may be
\* missing, and the geometry of the three layouts.  Lengths are in
\* sixteenths of an inch (every length of config.py and of the grid
\* constants is a multiple of 1/16").

MaxSheetImages == 7

CARD_WIDTH_INCHES == 40

CARD_HEIGHT_INCHES == 56

SHEET_WIDTH_INCHES == 136

SHEET_HEIGHT_INCHES == 176

BLEED_INCHES == 1

CARD_CELL_WIDTH_WITH_BLEED == CARD_WIDTH_INCHES + 2 * BLEED_INCHES

CARD_CELL_HEIGHT_WITH_BLEED == CARD_HEIGHT_INCHES + 2 * BLEED_INCHES

MARG_X_IN == 16

MARG_Y_IN == 8

COL_SPACING_IN == 56

NUM_ROWS == 3

LAYER_W_IN == CARD_CELL_WIDTH_WITH_BLEED

LAYER_H_IN == CARD_CELL_HEIGHT_WITH_BLEED

ROW_SPACING_IN == LAYER_H_IN

\* HERO_POSITIONS_IN, FRAME_POSITIONS_IN: << x, y >> of the top-left corner
\* of each row's slot, from the top-left corner of the sheet.
_grid_positions ==
    [ hero_pos |-> [row \in 1..NUM_ROWS |->
                      << MARG_X_IN, MARG_Y_IN + (row - 1) * ROW_SPACING_IN >>],
      frame_pos |-> [row \in 1..NUM_ROWS |->
                      << MARG_X_IN + COL_SPACING_IN, MARG_Y_IN + (row - 1) * ROW_SPACING_IN >>] ]

BG6UP_COLS == 3

BG6UP_ROWS == 2

\* landscape
BG6UP_PAGE_IN == << SHEET_HEIGHT_INCHES, SHEET_WIDTH_INCHES >>

BG6UP_CONTENT_W == BG6UP_COLS * LAYER_W_IN

BG6UP_CONTENT_H == BG6UP_ROWS * LAYER_H_IN

BG6UP_MARG_LEFT == (BG6UP_PAGE_IN[1] - BG6UP_CONTENT_W) \div 2

BG6UP_MARG_TOP == (BG6UP_PAGE_IN[2] - BG6UP_CONTENT_H) \div 2

CUT4UP_COLS == 2

CUT4UP_ROWS == 2

CUT4UP_PAGE_W_IN == SHEET_WIDTH_INCHES

CUT4UP_PAGE_H_IN == SHEET_HEIGHT_INCHES

CUT4UP_CONTENT_W == CUT4UP_COLS * LAYER_W_IN

CUT4UP_CONTENT_H == CUT4UP_ROWS * LAYER_H_IN

CUT4UP_MARG_LEFT == (CUT4UP_PAGE_W_IN - CUT4UP_CONTENT_W) \div 2

CUT4UP_MARG_TOP == (CUT4UP_PAGE_H_IN - CUT4UP_CONTENT_H) \div 2

\* << x_in, y_in >> of the slot _cut_4up_slot_positions()[i], i from 0.
Cut4upSlotIn(i) ==
    LET pos == _cut_4up_slot_positions[i + 1]
    IN  << CUT4UP_MARG_LEFT + pos[2] * LAYER_W_IN, CUT4UP_MARG_TOP + pos[1] * LAYER_H_IN >>

\* create_background_sheet, lines 228-230: slot i of a page.
Bg6upSlotIn(i) ==
    LET col == i % BG6UP_COLS
        row == i \div BG6UP_COLS
    IN  << BG6UP_MARG_LEFT + col * LAYER_W_IN, BG6UP_MARG_TOP + row * LAYER_H_IN >>

\* The state of the file a path names.
FileStates == {"file", "missing"}

is_file(f) == f = "file"

\* What a builder does for the k-th path it is given: the rectangle of the
\* slot on its page (top-left corner, size) and whether the file's content
\* was drawn in it.
SlotOf(list, k, page, xy, drawn) ==
    [ list |-> list, k |-> k, page |-> page, x |-> xy[1], y |-> xy[2],
      w |-> LAYER_W_IN, h |-> LAYER_H_IN, drawn |-> drawn ]

Built(slots) == [raised |-> FALSE, written |-> TRUE, slots |-> slots]

BuilderRaised == [raised |-> TRUE, written |-> FALSE, slots |-> {}]

\* create_background_sheet: chunks of 6; a path that is no file is skipped.
create_background_sheet(images) ==
    LET n_slots_per_page == BG6UP_COLS * BG6UP_ROWS
    IN  Built({ SlotOf("a", k, (k - 1) \div n_slots_per_page,
                       Bg6upSlotIn((k - 1) % n_slots_per_page), is_file(images[k])) :
                  k \in 1..Len(images) })

\* create_foreground_sheet: chunks of 4; the slot is outlined, the image is
\* drawn if the path is a file.
create_foreground_sheet_files(images) ==
    LET n_slots_per_page == CUT4UP_COLS * CUT4UP_ROWS
    IN  Built({ SlotOf("a", k, (k - 1) \div n_slots_per_page,
                       Cut4upSlotIn((k - 1) % n_slots_per_page),
                       is_file(images[k])) :
                  k \in 1..Len(images) })

\* build_top_layers_cutlines_svg and build_spacers_cutlines_svg, lines
\* 397-413 and 436-452: slot i takes entry i // 2 of the left list if i is
\* even, of the right list if odd, when there is such an entry and it is a
\* file.
Cutlines4up(left_paths, right_paths) ==
    Built({ SlotOf(IF i % 2 = 0 THEN "a" ELSE "b", i \div 2 + 1, 0, Cut4upSlotIn(i),
                   LET paths == IF i % 2 = 0 THEN left_paths ELSE right_paths
                   IN  i \div 2 < Len(paths) /\ is_file(paths[i \div 2 + 1])) :
              i \in 0..(Len(_cut_4up_slot_positions) - 1) })

build_top_layers_cutlines_svg_files(hero_frame_cut_paths, frame_cut_paths) ==
    Cutlines4up(hero_frame_cut_paths, frame_cut_paths)

build_spacers_cutlines_svg_files(hero_frame_spacer_paths, frame_spacer_paths) ==
    Cutlines4up(hero_frame_spacer_paths, frame_spacer_paths)

\* Lines 566-571 and 603-608: ValueError unless there are NUM_ROWS paths of
\* each kind, FileNotFoundError if one of them is no file; then lines
\* 580-587 and 615-628: one slot per position.
Ganged(hero_paths, frame_paths) ==
    IF Len(hero_paths) # NUM_ROWS \/ Len(frame_paths) # NUM_ROWS
    THEN BuilderRaised
    ELSE IF \E k \in 1..NUM_ROWS : ~ is_file(hero_paths[k]) \/ ~ is_file(frame_paths[k])
    THEN BuilderRaised
    ELSE Built({ SlotOf("a", k, 0, _grid_positions.hero_pos[k], TRUE) : k \in 1..NUM_ROWS }
                 \cup { SlotOf("b", k, 0, _grid_positions.frame_pos[k], TRUE) :
                          k \in 1..NUM_ROWS })

build_print_sheet_pdf_ganged(hero_image_paths, frame_image_paths) ==
    Ganged(hero_image_paths, frame_image_paths)

build_cut_master_svg_ganged_files(hero_svg_paths, frame_svg_paths) ==
    Ganged(hero_svg_paths, frame_svg_paths)

\* Lists of n paths, lo <= n <= hi.
PathLists(lo, hi) == UNION { [1..n -> FileStates] : n \in lo..hi }

Builders == {"background", "foreground", "top", "spacer", "ganged_print", "ganged_cut"}

\* The sheet each builder writes: << width, height >>.
SheetOf(builder) ==
    IF builder = "background" THEN BG6UP_PAGE_IN
    ELSE IF builder \in {"foreground", "top", "spacer"}
    THEN << CUT4UP_PAGE_W_IN, CUT4UP_PAGE_H_IN >>
    ELSE << SHEET_WIDTH_INCHES, SHEET_HEIGHT_INCHES >>

InitBuilder ==
    /\ bout = NotBuilt
    /\ \/ \E images \in PathLists(1, MaxSheetImages) :
             \E builder \in {"background", "foreground"} :
                bin = [builder |-> builder, a |-> images, b |-> << >>]
       \/ \E left \in PathLists(0, cards_per_page), right \in PathLists(0, cards_per_page) :
             \E builder \in {"top", "spacer"} :
                bin = [builder |-> builder, a |-> left, b |-> right]
       \/ \E hero \in PathLists(NUM_ROWS - 1, NUM_ROWS),
             frame \in PathLists(NUM_ROWS - 1, NUM_ROWS) :
             \E builder \in {"ganged_print", "ganged_cut"} :
                bin = [builder |-> builder, a |-> hero, b |-> frame]

Call(builder, res) ==
    /\ bin.builder = builder
    /\ bout = NotBuilt
    /\ bout' = res
    /\ UNCHANGED << bin, hvars, svars, cvars, avars, gvars, lvars >>

BuildBackgroundSheet == Call("background", create_background_sheet(bin.a))

BuildForegroundSheet == Call("foreground", create_foreground_sheet_files(bin.a))

BuildTopSheet == Call("top", build_top_layers_cutlines_svg_files(bin.a, bin.b))

BuildSpacerSheet == Call("spacer", build_spacers_cutlines_svg_files(bin.a, bin.b))

BuildGangedPrint == Call("ganged_print", build_print_sheet_pdf_ganged(bin.a, bin.b))

BuildGangedCut == Call("ganged_cut", build_cut_master_svg_ganged_files(bin.a, bin.b))

NextBuilder ==
    \/ BuildBackgroundSheet
    \/ BuildForegroundSheet
    \/ BuildTopSheet
    \/ BuildSpacerSheet
    \/ BuildGangedPrint
    \/ BuildGangedCut

InitBuilderSpec ==
    InitServer /\ InitCards /\ InitAlphaIdle /\ InitCutIdle /\ InitLayoutIdle /\ InitBuilder
        /\ InitContoursIdle

SpecBuilder == InitBuilderSpec /\ [][NextBuilder]_vars

\* ------------------------------------------- claims on the sheet builders
Called == bout # NotBuilt

\* The smallest and the largest element of a non-empty set of integers.
Least(S) == CHOOSE x \in S : \A y \in S : x <= y

Greatest(S) == CHOOSE x \in S : \A y \in S : x >= y

\* Top-left corners of all the slots of the layout a builder uses.
GridOf(builder) ==
    IF builder = "background"
    THEN { Bg6upSlotIn(i) : i \in 0..(BG6UP_COLS * BG6UP_ROWS - 1) }
    ELSE IF builder \in {"foreground", "top", "spacer"}
    THEN { Cut4upSlotIn(i) : i \in 0..(CUT4UP_COLS * CUT4UP_ROWS - 1) }
    ELSE { _grid_positions.hero_pos[k] : k \in 1..NUM_ROWS }
           \cup { _grid_positions.frame_pos[k] : k \in 1..NUM_ROWS }

\* C21: in each of the three layout modes (background 3x2 landscape,
\* cut/foreground 2x2 portrait, ganged 2 columns x 3 rows portrait) the left
\* margin of the grid equals (sheet width - content width) / 2 and the top
\* margin equals (sheet height - content height) / 2: the grid of every
\* sheet a builder writes is centred on the sheet.
C21_GridCentred ==
    bout.written =>
        LET grid == GridOf(bin.builder)
            left == Least({xy[1] : xy \in grid})
            top == Least({xy[2] : xy \in grid})
            content_w == Greatest({xy[1] + LAYER_W_IN : xy \in grid}) - left
            content_h == Greatest({xy[2] + LAYER_H_IN : xy \in grid}) - top
        IN  /\ 2 * left = SheetOf(bin.builder)[1] - content_w
            /\ 2 * top = SheetOf(bin.builder)[2] - content_h

\* The k-th path of list l of the call.
PathState(l, k) ==
    LET paths == IF l = "a" THEN bin.a ELSE bin.b
    IN  IF k <= Len(paths) THEN paths[k] ELSE "missing"

\* C22: for every sheet builder (background, foreground, top-layer, spacer,
\* ganged print, ganged cut) a missing image or geometry file of one slot
\* leaves only that slot blank: the builder does not raise, writes its output
\* file and draws every slot whose file is there.
C22_MissingSlotLeftBlank ==
    (Called /\ Len(bin.a) \in 1..MaxSheetImages
        /\ (bin.builder \in {"ganged_print", "ganged_cut"}
               => Len(bin.a) = NUM_ROWS /\ Len(bin.b) = NUM_ROWS)) =>
        /\ ~ bout.raised
        /\ bout.written
        /\ \A l \in {"a", "b"} : \A k \in 1..Len(IF l = "a" THEN bin.a ELSE bin.b) :
              (k <= NUM_ROWS /\ (bin.builder \in {"top", "spacer"} => k <= cards_per_page)) =>
                 \E s \in bout.slots :
                     s.list = l /\ s.k = k /\ s.drawn = is_file(PathState(l, k))

\* Two rectangles have a point of positive area in common.
Overlap(s, t) ==
    /\ s.x < t.x + t.w /\ t.x < s.x + s.w
    /\ s.y < t.y + t.h /\ t.y < s.y + s.h

\* C28: in every layout mode every slot rectangle lies entirely within its
\* sheet and no two slots of the same sheet overlap.
C28_SlotsInsideSheet ==
    \A s \in bout.slots :
        /\ 0 <= s.x /\ s.x + s.w <= SheetOf(bin.builder)[1]
        /\ 0 <= s.y /\ s.y + s.h <= SheetOf(bin.builder)[2]
        /\ \A t \in bout.slots : (t # s /\ t.page = s.page) => ~ Overlap(s, t)

\* ================================================================ part 7
\* _build_polygons_from_contours of cut_paths.py on the contours and the
\* hierarchy cv2.findContours returns.  Contours are numbered from 0 as in
\* the code; a contour is given by what the function reads of it.

MaxContours == 3

\* A contour: n points, closed if its first point equals its last, and what
\* shapely makes of its ring: "simple" gives a valid polygon; "crossing" an
\* invalid one that buffer(0) repairs; "flat" (no area) an invalid one that
\* buffer(0) leaves empty, or an exception, which is logged.
Contour(n, closed, ring) == [n |-> n, closed |-> closed, ring |-> ring]

Contours ==
    { Contour(2, FALSE, "flat"), Contour(3, FALSE, "simple"), Contour(4, TRUE, "simple"),
      Contour(4, FALSE, "flat"), Contour(4, FALSE, "crossing") }

\* Number of points of the ring: the first point is appended unless the
\* contour is closed already.
_contour_to_ring(cnt) == IF cnt.closed THEN cnt.n ELSE cnt.n + 1

NoContour == -1

\* The parent of i, followed k times at most, ends at no contour.
RECURSIVE Rooted(_, _, _)
Rooted(parent, i, k) ==
    IF i = NoContour THEN TRUE
    ELSE IF k = 0 THEN FALSE
    ELSE Rooted(parent, parent[i + 1], k - 1)

\* The hierarchy rows of the forest given by parent: the contours with the
\* same parent are chained by next and prev, first_child is the first of
\* the chain of children.
Hierarchy(parent) ==
    LET N == Len(parent)
        Sibs(i) == { j \in 0..(N - 1) : parent[j + 1] = parent[i + 1] }
        First(S) == IF S = {} THEN NoContour ELSE CHOOSE x \in S : \A y \in S : x <= y
        Last(S) == IF S = {} THEN NoContour ELSE CHOOSE x \in S : \A y \in S : x >= y
    IN  [ k \in 1..N |->
            LET i == k - 1
            IN  << First({ j \in Sibs(i) : j > i }), Last({ j \in Sibs(i) : j < i }),
                   First({ j \in 0..(N - 1) : parent[j + 1] = i }), parent[k] >> ]

\* Well-formed hierarchies of N contours.
Hierarchies(N) ==
    { Hierarchy(parent) :
        parent \in { f \in [1..N -> {NoContour} \cup (0..(N - 1))] :
                       \A i \in 0..(N - 1) : Rooted(f, i, N) } }

InitContours ==
    /\ \E N \in 0..MaxContours :
          \E cs \in [1..N -> Contours], H \in Hierarchies(N) :
             hin = [contours |-> cs, H |-> H]
    /\ hpc = [HIdle EXCEPT !.pc = "for"]
    /\ hpolys = << >>

\* The least number of ring points (the closing point included) of a ring
\* that is used.
MinRing == 4

\* Variant: a ring of three points is used.
TooShort_ThreePoints(ring) == ring < MinRing - 1

\* len(exterior) < 4; a hole ring is kept when len(hole_ring) >= 4.
TooShort(ring) == ring < MinRing

\* Lines 97-107: contour i of the for loop: skipped if it has a parent or
\* its ring is too short, else the walk over its children begins.
ForContour ==
    /\ hpc.pc = "for"
    /\ hpc.i < Len(hin.contours)
    /\ LET i == hpc.i
           parent == hin.H[i + 1][4]
           exterior == _contour_to_ring(hin.contours[i + 1])
       IN  hpc' = IF parent # NoContour \/ TooShort(exterior)
                  THEN [hpc EXCEPT !.i = i + 1]
                  ELSE [hpc EXCEPT !.pc = "while", !.child = hin.H[i + 1][3],
                                   !.holes = << >>, !.steps = 0]
    /\ UNCHANGED << hin, hpolys, bvars, svars, cvars, avars, gvars, lvars >>

\* Lines 108-112: one iteration of the while loop.
WhileChild ==
    /\ hpc.pc = "while"
    /\ hpc.child # NoContour
    /\ LET hole_ring == _contour_to_ring(hin.contours[hpc.child + 1])
       IN  hpc' = [hpc EXCEPT !.holes = IF ~TooShort(hole_ring)
                                       THEN Append(@, hpc.child) ELSE @,
                              !.child = hin.H[hpc.child + 1][1],
                              !.steps = @ + 1]
    /\ UNCHANGED << hin, hpolys, bvars, svars, cvars, avars, gvars, lvars >>

\* Lines 114-124: Polygon(exterior, holes); buffer(0) if it is not valid;
\* appended unless it is empty; an exception is logged.
MakePolygon ==
    /\ hpc.pc = "while"
    /\ hpc.child = NoContour
    /\ LET ring == hin.contours[hpc.i + 1].ring
           poly == [exterior |-> hpc.i, holes |-> hpc.holes, repaired |-> ring = "crossing"]
       IN  hpolys' = IF ring \in {"simple", "crossing"} THEN Append(hpolys, poly) ELSE hpolys
    /\ hpc' = [hpc EXCEPT !.pc = "for", !.i = @ + 1, !.holes = << >>, !.steps = 0]
    /\ UNCHANGED << hin, bvars, svars, cvars, avars, gvars, lvars >>

\* Line 126, and line 91 for no contours.
ReturnPolygons ==
    /\ hpc.pc = "for"
    /\ hpc.i = Len(hin.contours)
    /\ hpc' = [hpc EXCEPT !.pc = "returned"]
    /\ UNCHANGED << hin, hpolys, bvars, svars, cvars, avars, gvars, lvars >>

NextContours == ForContour \/ WhileChild \/ MakePolygon \/ ReturnPolygons

InitContoursSpec ==
    InitServer /\ InitCards /\ InitAlphaIdle /\ InitCutIdle /\ InitLayoutIdle
        /\ InitBuilderIdle /\ InitContours

SpecContours == InitContoursSpec /\ [][NextContours]_vars

\* A sequential call runs on until it returns.
SpecContoursFair == SpecContours /\ WF_vars(NextContours)

\* ------------------------------------------------ claims on the contours
AllContours == 0..(Len(hin.contours) - 1)

RingPoints(i) == _contour_to_ring(hin.contours[i + 1])

\* Contour i has no parent and a closed ring of at least 4 points.
OuterRing(i) == hin.H[i + 1][4] = NoContour /\ RingPoints(i) >= 4

\* The direct children of i whose closed ring has at least 4 points.
HoleRings(i) == { j \in AllContours : hin.H[j + 1][4] = i /\ RingPoints(j) >= 4 }

PolygonsOf(i) == { k \in 1..Len(hpolys) : hpolys[k].exterior = i }

HolesOf(k) == { hpolys[k].holes[m] : m \in 1..Len(hpolys[k].holes) }

\* Only contours without parent and with a ring of 4 points are exteriors,
\* no contour is used twice, and the walk over the children of one
\* contour takes no more steps than there are contours.
SkippedAndUsedOnce ==
    /\ \A k \in 1..Len(hpolys) :
          /\ OuterRing(hpolys[k].exterior)
          /\ Cardinality(HolesOf(k)) = Len(hpolys[k].holes)
          /\ hpolys[k].exterior \notin HolesOf(k)
          /\ \A m \in 1..Len(hpolys) :
                m # k => /\ hpolys[m].exterior # hpolys[k].exterior
                         /\ HolesOf(m) \cap HolesOf(k) = {}
    /\ hpc.steps <= Len(hin.contours)

\* C25 as stated: every contour whose parent is none and whose closed ring
\* has at least 4 points becomes one polygon whose holes are exactly its
\* direct children with at least 4 points; every other contour is skipped,
\* no contour is used in two polygons, the walks are bounded.
C25_EveryOuterRingOnePolygon ==
    /\ SkippedAndUsedOnce
    /\ hpc.pc = "returned" =>
          \A i \in AllContours :
              OuterRing(i) =>
                  /\ Cardinality(PolygonsOf(i)) = 1
                  /\ \A k \in PolygonsOf(i) : HolesOf(k) = HoleRings(i)

\* The ring of contour i gives a polygon that is not empty.
NonEmptyRing(i) == hin.contours[i + 1].ring \in {"simple", "crossing"}

\* C25 (amended): every contour whose parent is none, whose closed ring has
\* at least 4 points and whose polygon, repaired by buffer(0) if invalid, is
\* not empty becomes one polygon built with exactly its direct children of
\* at least 4 points as holes; such a contour whose polygon is empty or
\* whose construction raises is skipped without an error, as is every other
\* contour; no contour is used in two polygons; and the call returns for
\* every well-formed hierarchy.
C25_NonEmptyOuterRingOnePolygon ==
    /\ [](SkippedAndUsedOnce)
    /\ [](hpc.pc = "returned" =>
            \A i \in AllContours :
                /\ (OuterRing(i) /\ NonEmptyRing(i)) =>
                      /\ Cardinality(PolygonsOf(i)) = 1
                      /\ \A k \in PolygonsOf(i) :
                            /\ HolesOf(k) = HoleRings(i)
                            /\ hpolys[k].repaired = (hin.contours[i + 1].ring = "crossing")
                /\ (OuterRing(i) /\ ~ NonEmptyRing(i)) => PolygonsOf(i) = {})
    /\ <>(hpc.pc = "returned")

\* The call has returned one polygon with a hole for three contours: one of
\* the others is a child with too short a ring or an outer ring without area.
C25_Witness ==
    /\ hpc.pc = "returned"
    /\ Len(hin.contours) = 3
    /\ Len(hpolys) = 1
    /\ Len(hpolys[1].holes) = 1
    /\ \E i \in AllContours : OuterRing(i) /\ hin.contours[i + 1].ring = "flat"
====
